---- MODULE Spec2Model ----
(***************************************************************************)
(* Model of the calendar chatbot's dialogue engine                         *)
(* (backend/simple_llm_agent.py, backend/calendar_utils.py).               *)
(*                                                                         *)
(* A text is a sequence of one-character strings, so that the substring    *)
(* tests, strip(), lower(), split() and the regular expressions of the     *)
(* code are computed on the characters as Python computes them.            *)
(* One chat() call is a run of steps idle -> intent -> handler -> done;    *)
(* every call to the inference client or to the calendar is one step whose *)
(* outcome is chosen by the environment.                                   *)
(***************************************************************************)
EXTENDS Integers, Sequences, FiniteSets, TLC

(***************************************************************************)
(* Bounds of the model                                                     *)
(***************************************************************************)
\* turns kept in conversation_history before the model stops accepting chat()
MaxHistory == 1
\* events the calendar holds before the model stops creating more
MaxEvents == 1
\* turns of a run of several turns
MaxTurns == 2
\* weeks the reference instants of the parser runs are drawn from
MaxWeeks == 1
\* turns, and so events, of a session that runs without a reset
MaxBookings == 2
\* requests the server accepts in a run
MaxRequests == 2

(***************************************************************************)
(* Python values and string operations                                     *)
(***************************************************************************)
\* Python's None; no text is equal to it because texts hold one-character strings
None == <<"None">>

\* truthiness test `not x` applied to an optional string
Falsy(x) == x = None \/ x = <<>>

UpperCase == <<"A","B","C","D","E","F","G","H","I","J","K","L","M","N","O","P","Q","R","S","T","U",
    "V","W","X","Y","Z">>
LowerCase == <<"a","b","c","d","e","f","g","h","i","j","k","l","m","n","o","p","q","r","s","t","u",
    "v","w","x","y","z">>

\* str.lower() on one character
LowerChar(c) ==
    IF \E i \in 1..Len(UpperCase) : UpperCase[i] = c
    THEN LowerCase[CHOOSE i \in 1..Len(UpperCase) : UpperCase[i] = c]
    ELSE c

\* str.lower()
Lower(s) == [i \in 1..Len(s) |-> LowerChar(s[i])]

\* characters matched by \s and removed by str.strip()
IsSpace(c) == c \in {" ", "\n", "\t"}

\* characters matched by \d
IsDigit(c) == c \in {"0", "1", "2", "3", "4", "5", "6", "7", "8", "9"}

\* str.strip()
Strip(s) ==
    LET keep == {i \in 1..Len(s) : ~IsSpace(s[i])}
    IN  IF keep = {} THEN <<>>
        ELSE SubSeq(s, CHOOSE i \in keep : \A j \in keep : i <= j,
                       CHOOSE i \in keep : \A j \in keep : i >= j)

\* `sub in s`
Contains(s, sub) ==
    \E i \in 0..(Len(s) - Len(sub)) : SubSeq(s, i + 1, i + Len(sub)) = sub

\* any(phrase in s for phrase in phrases)
ContainsAny(s, phrases) == \E p \in phrases : Contains(s, p)

\* str.find(sub) as a 1-based index, 0 when absent
Find(s, sub) ==
    IF Contains(s, sub)
    THEN 1 + CHOOSE i \in 0..(Len(s) - Len(sub)) :
             /\ SubSeq(s, i + 1, i + Len(sub)) = sub
             /\ \A j \in 0..(i - 1) : SubSeq(s, j + 1, j + Len(sub)) # sub
    ELSE 0

\* str.split(sep) for a one-character separator
RECURSIVE Split(_, _)
Split(s, sep) ==
    LET at == Find(s, <<sep>>)
    IN  IF at = 0 THEN <<s>>
        ELSE <<SubSeq(s, 1, at - 1)>> \o Split(SubSeq(s, at + 1, Len(s)), sep)

\* str.split(':', 1)[1]: the text after the first colon (the caller has seen a colon)
AfterFirstColon(s) == SubSeq(s, Find(s, <<":">>) + 1, Len(s))

(***************************************************************************)
(* Inference clients                                                       *)
(***************************************************************************)
\* _initialize_llm: the first provider whose API key the environment sets, else the
\* rule-based stub (the constructors only store the key and cannot fail)
_initialize_llm(env) ==
    IF "GROQ_API_KEY" \in env THEN "GroqClient"
    ELSE IF "OPENAI_API_KEY" \in env THEN "OpenAIClient"
    ELSE IF "ANTHROPIC_API_KEY" \in env THEN "AnthropicClient"
    ELSE "FallbackLLM"

\* environments the agent is started in: the API keys that are set.  The three
\* provider classes share one generate(), so one of them stands for all.
Environments == { {"GROQ_API_KEY", "OPENAI_API_KEY"}, {} }

\* the text GroqClient, OpenAIClient and AnthropicClient return when the request fails
ProviderErrorText == <<"I","'","m"," ","h","a","v","i","n","g"," ","t","r","o","u","b","l","e"," ",
    "p","r","o","c","e","s","s","i","n","g"," ","y","o","u","r"," ","r","e","q","u","e","s","t"," ",
    "r","i","g","h","t"," ","n","o","w",".">>

FallbackBookText == <<"I"," ","c","a","n"," ","h","e","l","p"," ","y","o","u"," ","b","o","o","k",
    " ","a"," ","m","e","e","t","i","n","g","."," ","P","l","e","a","s","e"," ","p","r","o","v","i",
    "d","e"," ","t","h","e"," ","d","a","t","e",","," ","t","i","m","e",","," ","a","n","d"," ","t",
    "i","t","l","e",".">>
FallbackScheduleText == <<"I"," ","c","a","n"," ","s","h","o","w"," ","y","o","u"," ","y","o","u",
    "r"," ","s","c","h","e","d","u","l","e","."," ","P","l","e","a","s","e"," ","s","p","e","c","i",
    "f","y"," ","w","h","i","c","h"," ","d","a","t","e",".">>
FallbackAvailableText == <<"I"," ","c","a","n"," ","c","h","e","c","k"," ","a","v","a","i","l","a",
    "b","i","l","i","t","y","."," ","P","l","e","a","s","e"," ","s","p","e","c","i","f","y"," ","t",
    "h","e"," ","d","a","t","e"," ","a","n","d"," ","t","i","m","e",".">>
FallbackDefaultText ==
    <<"I","'","m"," ","h","e","r","e"," ","t","o"," ","h","e","l","p"," ","w","i","t","h"," ","y",
        "o","u","r"," ","c","a","l","e","n","d","a","r","."," ","Y","o","u"," ","c","a","n"," ","a",
        "s","k"," ","m","e"," ","t","o"," ","b","o","o","k"," ","m","e","e","t","i","n","g","s",",",
        " ","c","h","e","c","k"," ","s","c","h","e","d","u","l","e","s",","," ","o","r"," ","f","i",
        "n","d"," ","a","v","a","i","l","a","b","l","e"," ","t","i","m","e","s",".">>

\* the prompts the agent builds: a fixed template around the user's message
PromptKinds == {"intent", "booking", "date", "time", "chat"}

\* the FallbackLLM keywords each lower-cased prompt template contains by itself:
\* "book_meeting"/"schedule" in the intent prompt, "booking" in the extraction prompt,
\* "What's my schedule tomorrow" in the date prompt; the time and chat templates
\* ("scheduling" is not "schedule") contain none
TemplateWords(kind) ==
    CASE kind = "intent"  -> {<<"b","o","o","k">>, <<"s","c","h","e","d","u","l","e">>, <<"e","v",
        "e","n","t","s">>, <<"a","v","a","i","l","a","b","l","e">>}
      [] kind = "booking" -> {<<"b","o","o","k">>}
      [] kind = "date"    -> {<<"s","c","h","e","d","u","l","e">>, <<"e","v","e","n","t","s">>, <<"a",
          "v","a","i","l","a","b","l","e">>}
      [] kind = "time"    -> {}
      [] kind = "chat"    -> {}

\* `word in prompt.lower()` for a prompt of the given kind built around msg
PromptContains(kind, msg, word) ==
    word \in TemplateWords(kind) \/ Contains(Lower(msg), word)

\* FallbackLLM.generate
FallbackLLM_generate(kind, msg) ==
    IF PromptContains(kind, msg, <<"b","o","o","k">>) \/ PromptContains(kind, msg, <<"s","c","h",
        "e","d","u","l","e">>)
    THEN FallbackBookText
    ELSE IF PromptContains(kind, msg, <<"s","c","h","e","d","u","l","e">>) \/ PromptContains(kind, msg, <<"e",
        "v","e","n","t","s">>)
    THEN FallbackScheduleText
    ELSE IF PromptContains(kind, msg, <<"a","v","a","i","l","a","b","l","e">>)
    THEN FallbackAvailableText
    ELSE FallbackDefaultText

\* completions a provider can send back; None is a response whose content is null
Completions ==
    { <<"b","o","o","k","_","m","e","e","t","i","n","g">>,
      <<"c","h","e","c","k","_","s","c","h","e","d","u","l","e">>,
      <<"c","h","e","c","k","_","a","v","a","i","l","a","b","i","l","i","t","y">>,
      <<" ","C","h","e","c","k","_","S","c","h","e","d","u","l","e",","," ","n","o","t"," ","b","o",
          "o","k","_","m","e","e","t","i","n","g","\n">>,
      <<"-"," ","d","a","t","e",":"," ","t","o","m","o","r","r","o","w","\n","-"," ","t","i","m",
          "e",":"," ","3","p","m","\n","-"," ","t","i","t","l","e",":"," ","S","t","a","n","d","u",
          "p">>,
      <<"-"," ","D","a","t","e",":"," ","F","r","i","d","a","y","\n","-"," ","T","i","m","e",":",
          " ","9",":","3","0","\n","-"," ","T","i","t","l","e",":"," ","n","o","n","e">>,
      <<" ","N","e","x","t"," ","F","r","i","d","a","y","\n">>,
      None }

\* what one request to the provider does: it fails, or answers with a completion
ProviderOutcomes ==
    {[ok |-> FALSE, content |-> None]} \cup {[ok |-> TRUE, content |-> c] : c \in Completions}

\* GroqClient.generate, OpenAIClient.generate, AnthropicClient.generate:
\* every exception of the request is caught and answered with the fixed text
Provider_generate(outcome) ==
    IF outcome.ok THEN outcome.content ELSE ProviderErrorText

(***************************************************************************)
(* Intent classification                                                   *)
(***************************************************************************)
BOOK_MEETING == <<"b","o","o","k","_","m","e","e","t","i","n","g">>
CHECK_SCHEDULE == <<"c","h","e","c","k","_","s","c","h","e","d","u","l","e">>
CHECK_AVAILABILITY == <<"c","h","e","c","k","_","a","v","a","i","l","a","b","i","l","i","t","y">>
GENERAL_CHAT == <<"g","e","n","e","r","a","l","_","c","h","a","t">>

ScheduleQueryPhrases ==
    { <<"w","h","a","t","'","s"," ","m","y"," ","s","c","h","e","d","u","l","e">>, <<"s","h","o",
        "w"," ","m","y"," ","s","c","h","e","d","u","l","e">>, <<"m","y"," ","s","c","h","e","d",
        "u","l","e">>, <<"w","h","a","t"," ","d","o"," ","i"," ","h","a","v","e">>,
      <<"s","h","o","w"," ","m","y"," ","e","v","e","n","t","s">>, <<"m","y"," ","e","v","e","n",
          "t","s">> }
BookingPhrases ==
    { <<"b","o","o","k">>, <<"s","c","h","e","d","u","l","e"," ","a">>, <<"s","e","t"," ","u","p">>, <<"c",
        "r","e","a","t","e"," ","m","e","e","t","i","n","g">>, <<"a","d","d"," ","m","e","e","t",
        "i","n","g">> }
AvailabilityPhrases == { <<"a","v","a","i","l","a","b","l","e">>, <<"f","r","e","e">>, <<"c","h",
    "e","c","k"," ","i","f">> }

\* KeywordIntent with the booking phrases tested before the schedule-query phrases
KeywordIntent_booking_first(user_message) ==
    LET user_lower == Lower(user_message)
    IN  IF ContainsAny(user_lower, BookingPhrases) THEN BOOK_MEETING
        ELSE IF ContainsAny(user_lower, ScheduleQueryPhrases) THEN CHECK_SCHEDULE
        ELSE IF ContainsAny(user_lower, AvailabilityPhrases) THEN CHECK_AVAILABILITY
        ELSE GENERAL_CHAT

\* the keyword matching of _understand_intent's except branch
KeywordIntent(user_message) ==
    LET user_lower == Lower(user_message)
    IN  IF ContainsAny(user_lower, ScheduleQueryPhrases) THEN CHECK_SCHEDULE
        ELSE IF ContainsAny(user_lower, BookingPhrases) THEN BOOK_MEETING
        ELSE IF ContainsAny(user_lower, AvailabilityPhrases) THEN CHECK_AVAILABILITY
        ELSE GENERAL_CHAT

\* CompletionIntent without the else branch of line 236: a completion that names no
\* category gives no intent
CompletionIntent_no_default(response) ==
    LET intent == Lower(Strip(response))
    IN  IF Contains(intent, BOOK_MEETING) THEN BOOK_MEETING
        ELSE IF Contains(intent, CHECK_SCHEDULE) THEN CHECK_SCHEDULE
        ELSE IF Contains(intent, CHECK_AVAILABILITY) THEN CHECK_AVAILABILITY
        ELSE None

\* the mapping of the completion to an intent in _understand_intent's try branch
CompletionIntent(response) ==
    LET intent == Lower(Strip(response))
    IN  IF Contains(intent, BOOK_MEETING) THEN BOOK_MEETING
        ELSE IF Contains(intent, CHECK_SCHEDULE) THEN CHECK_SCHEDULE
        ELSE IF Contains(intent, CHECK_AVAILABILITY) THEN CHECK_AVAILABILITY
        ELSE GENERAL_CHAT

\* _understand_intent with the keyword rules asked first and the completion used only
\* when they match nothing
_understand_intent_rules_first(user_message, response) ==
    IF KeywordIntent(user_message) # GENERAL_CHAT \/ response = None
    THEN KeywordIntent(user_message)
    ELSE CompletionIntent(response)

\* _understand_intent: response.strip() raises on a None response, and the except
\* branch then classifies by keywords
_understand_intent(user_message, response) ==
    IF response = None THEN KeywordIntent(user_message)
    ELSE CompletionIntent(response)

(***************************************************************************)
(* Slot extraction for booking: _extract_booking_info                      *)
(***************************************************************************)
\* end of the match of \d{1,2}(?::\d{2})?\s*(?:am|pm)? that starts at the digit s[i];
\* every part after the first digit is optional, so the greedy choice is the match
RECURSIVE SkipSpaces(_, _)
SkipSpaces(s, i) == IF i + 1 <= Len(s) /\ IsSpace(s[i + 1]) THEN SkipSpaces(s, i + 1) ELSE i

TimeMatchEnd(s, i) ==
    LET e1 == IF i + 1 <= Len(s) /\ IsDigit(s[i + 1]) THEN i + 1 ELSE i
        e2 == IF /\ e1 + 3 <= Len(s)
                 /\ s[e1 + 1] = ":"
                 /\ IsDigit(s[e1 + 2])
                 /\ IsDigit(s[e1 + 3])
              THEN e1 + 3 ELSE e1
        e3 == SkipSpaces(s, e2)
    IN  IF e3 + 2 <= Len(s) /\ SubSeq(s, e3 + 1, e3 + 2) \in {<<"a","m">>, <<"p","m">>}
        THEN e3 + 2 ELSE e3

\* re.search(r'(\d{1,2}(?::\d{2})?\s*(?:am|pm)?)', s).group(1), None without a match
TimeSearch(s) ==
    LET digits == {i \in 1..Len(s) : IsDigit(s[i])}
    IN  IF digits = {} THEN None
        ELSE LET i == CHOOSE d \in digits : \A e \in digits : d <= e
             IN  SubSeq(s, i, TimeMatchEnd(s, i))

\* str.split()[0]: the first run of non-space characters of a text that has one
FirstWord(s) ==
    LET t == Strip(s)
        spaces == {i \in 1..Len(t) : IsSpace(t[i])}
    IN  IF spaces = {} THEN t
        ELSE SubSeq(t, 1, (CHOOSE i \in spaces : \A j \in spaces : i <= j) - 1)

\* the loop over the lines of the completion: a later line overwrites an earlier one
RECURSIVE ParseLines(_, _)
ParseLines(lines, info) ==
    IF lines = <<>> THEN info
    ELSE LET line == Head(lines)
             low == Lower(line)
             val == Strip(AfterFirstColon(line))
             isNone == Lower(val) = <<"n","o","n","e">>
             next ==
                 IF Contains(low, <<"d","a","t","e",":">>)
                 THEN [info EXCEPT !.date = IF isNone THEN None ELSE val]
                 ELSE IF Contains(low, <<"t","i","m","e",":">>)
                 THEN [info EXCEPT !.time = IF isNone THEN None ELSE val]
                 ELSE IF Contains(low, <<"t","i","t","l","e",":">>)
                 THEN [info EXCEPT !.title = IF isNone THEN <<"M","e","e","t","i","n","g">> ELSE val]
                 ELSE info
         IN  ParseLines(Tail(lines), next)

\* the date keywords of the fallback extraction: "tomorrow" is tested before "today"
KeywordDate(user_lower) ==
    IF Contains(user_lower, <<"t","o","m","o","r","r","o","w">>) THEN <<"t","o","m","o","r","r","o",
        "w">>
    ELSE IF Contains(user_lower, <<"t","o","d","a","y">>) THEN <<"t","o","d","a","y">>
    ELSE None

\* the text after "called", stripped
AfterCalled(user_message) ==
    Strip(SubSeq(user_message, Find(Lower(user_message), <<"c","a","l","l","e","d">>) + 6, Len(user_message)))

\* lines 122-158: the fields the completion left unset are filled from the message
\* (user_lower is the message lower-cased, parsed the result of lines 110-120)
FillFromMessage(user_message, user_lower, parsed) ==
    LET date == IF Falsy(parsed.date) /\ KeywordDate(user_lower) # None
                THEN KeywordDate(user_lower) ELSE parsed.date
        time == IF Falsy(parsed.time) /\ TimeSearch(user_lower) # None
                THEN TimeSearch(user_lower) ELSE parsed.time
        title ==
            IF Falsy(parsed.title) \/ Lower(parsed.title) = <<"n","o","n","e">>
            THEN IF Contains(user_lower, <<"c","a","l","l","e","d">>)
                 THEN IF AfterCalled(user_message) # <<>>
                      THEN FirstWord(AfterCalled(user_message))
                      ELSE parsed.title
                 ELSE IF Contains(user_lower, <<"d","i","n","n","e","r">>) THEN <<"D","i","n","n",
                     "e","r">>
                 ELSE IF Contains(user_lower, <<"l","u","n","c","h">>) THEN <<"L","u","n","c","h">>
                 ELSE <<"M","e","e","t","i","n","g">>
            ELSE parsed.title
    IN  [date |-> date, time |-> time, title |-> title]

\* ExtractFromCompletion with the keyword and digit rules asked first and the
\* completion used for the fields they leave unset
ExtractFromCompletion_rules_first(user_message, response) ==
    LET user_lower == Lower(user_message)
        parsed == ParseLines(Split(Strip(response), "\n"),
                             [date |-> None, time |-> None, title |-> None])
    IN  [date |-> IF KeywordDate(user_lower) # None
                  THEN KeywordDate(user_lower) ELSE parsed.date,
         time |-> IF TimeSearch(user_lower) # None
                  THEN TimeSearch(user_lower) ELSE parsed.time,
         title |-> IF Falsy(parsed.title) THEN <<"M","e","e","t","i","n","g">> ELSE parsed.title]

\* the try branch of _extract_booking_info, for a completion that is a text
ExtractFromCompletion(user_message, response) ==
    FillFromMessage(user_message, Lower(user_message),
                    ParseLines(Split(Strip(response), "\n"),
                               [date |-> None, time |-> None, title |-> None]))

\* ExtractByKeywords without the keyword and digit rules of lines 168-178
ExtractByKeywords_defaults(user_message) ==
    [date |-> None, time |-> None, title |-> <<"M","e","e","t","i","n","g">>]

\* the except branch of _extract_booking_info
ExtractByKeywords(user_message) ==
    LET user_lower == Lower(user_message)
    IN  [date |-> KeywordDate(user_lower),
         time |-> TimeSearch(user_lower),
         title |-> IF Contains(user_lower, <<"d","i","n","n","e","r">>) THEN <<"D","i","n","n","e",
             "r">>
                   ELSE IF Contains(user_lower, <<"l","u","n","c","h">>) THEN <<"L","u","n","c","h">>
                   ELSE IF Contains(user_lower, <<"c","a","l","l","e","d">>) /\ AfterCalled(user_message) # <<>>
                   THEN FirstWord(AfterCalled(user_message))
                   ELSE <<"M","e","e","t","i","n","g">>]

\* _extract_booking_info: response.strip() raises on a None response
_extract_booking_info(user_message, response) ==
    IF response = None THEN ExtractByKeywords(user_message)
    ELSE ExtractFromCompletion(user_message, response)

(***************************************************************************)
(* Instants and the temporal parser (calendar_utils.py)                    *)
(***************************************************************************)
\* An instant is a day number (day 0 is a Monday) with a time of day; second stands
\* for the seconds and microseconds together.
Instant(d, h, m, s) == [day |-> d, hour |-> h, minute |-> m, second |-> s]

\* datetime.weekday(): Monday is 0
Weekday(d) == d % 7

\* t + timedelta(days=n)
AddDays(t, n) == [t EXCEPT !.day = t.day + n]

\* t + timedelta(hours=1)
AddHour(t) ==
    IF t.hour = 23 THEN [t EXCEPT !.day = t.day + 1, !.hour = 0]
    ELSE [t EXCEPT !.hour = t.hour + 1]

\* values datetime.now() takes in the model: a Wednesday morning with seconds on the
\* clock
NowSet == { Instant(2, 9, 30, 42) }

DigitChars == <<"0","1","2","3","4","5","6","7","8","9">>

\* int() of one digit
DigitVal(c) == (CHOOSE i \in 1..10 : DigitChars[i] = c) - 1

\* The shape H[H][:MM][spaces][am|pm] every time pattern of the code matches: the
\* number, the minutes when present, the meridiem when present and whether spaces
\* separate the meridiem from the digits.  ok is FALSE for any other text.  s is
\* stripped and lower-cased.
TimeShapeOf(s) ==
    LET two == Len(s) >= 2 /\ IsDigit(s[2])
        e1 == IF two THEN 2 ELSE 1
        hasMin == /\ e1 + 3 <= Len(s)
                  /\ s[e1 + 1] = ":"
                  /\ IsDigit(s[e1 + 2])
                  /\ IsDigit(s[e1 + 3])
        e2 == IF hasMin THEN e1 + 3 ELSE e1
        e3 == SkipSpaces(s, e2)
        rest == SubSeq(s, e3 + 1, Len(s))
    IN  IF s = <<>> \/ ~IsDigit(s[1]) \/ rest \notin {<<>>, <<"a","m">>, <<"p","m">>}
        THEN [ok |-> FALSE]
        ELSE [ok |-> TRUE,
              hour |-> IF two THEN 10 * DigitVal(s[1]) + DigitVal(s[2]) ELSE DigitVal(s[1]),
              hasMin |-> hasMin,
              minute |-> IF hasMin THEN 10 * DigitVal(s[e1 + 2]) + DigitVal(s[e1 + 3]) ELSE 0,
              meridiem |-> rest,
              gap |-> e3 > e2]

\* the shape of a text, stripped and lower-cased first
TimeShape(text) == TimeShapeOf(Strip(Lower(text)))

\* the outcome of a call that raises
Raise == [raise |-> TRUE]
\* the outcome of a call that returns v
Return(v) == [raise |-> FALSE, value |-> v]

\* dateutil's parser.parse on a time string of shape sh, as the hour and minute it reports.
\* With a meridiem the hour must be at most 12; a number alone is read as a day of the
\* month (or a year) and leaves the time at 00:00, and 29..31 fail in a shorter month.
DateutilTimeOf(sh) ==
    IF ~sh.ok THEN {Raise}
    ELSE IF sh.meridiem # <<>>
    THEN IF sh.hour > 12 \/ sh.minute > 59 THEN {Raise}
         ELSE {Return([hour |-> IF sh.meridiem = <<"p","m">> /\ sh.hour < 12 THEN sh.hour + 12
                                ELSE IF sh.meridiem = <<"a","m">> /\ sh.hour = 12 THEN 0
                                ELSE sh.hour,
                       minute |-> sh.minute])}
    ELSE IF sh.hasMin
    THEN IF sh.hour > 23 \/ sh.minute > 59 THEN {Raise}
         ELSE {Return([hour |-> sh.hour, minute |-> sh.minute])}
    ELSE IF sh.hour = 0 THEN {Raise}
    ELSE IF sh.hour \in 29..31 THEN {Raise, Return([hour |-> 0, minute |-> 0])}
    ELSE {Return([hour |-> 0, minute |-> 0])}

\* parser.parse(time_str) of _combine_date_and_time
DateutilTime(time_str) == DateutilTimeOf(TimeShape(time_str))

\* _combine_date_and_time: the date with the parsed hour and minute, seconds zeroed
_combine_date_and_time(date_obj, time_str) ==
    { IF o.raise THEN Raise
      ELSE Return(Instant(date_obj.day, o.value.hour, o.value.minute, 0))
      : o \in DateutilTime(time_str) }

WeekdayNames ==
    << <<"m","o","n","d","a","y">>, <<"t","u","e","s","d","a","y">>, <<"w","e","d","n","e","s","d",
        "a","y">>, <<"t","h","u","r","s","d","a","y">>, <<"f","r","i","d","a","y">>, <<"s","a","t",
        "u","r","d","a","y">>,
       <<"s","u","n","d","a","y">> >>

\* dateutil's parser.parse on a whole phrase (parse_combined_datetime's last resort).
\* It knows a weekday name followed by a clock time and resolves the weekday to its
\* first occurrence from today on; a phrase with a word it does not know ("next",
\* "today", "tomorrow", ...) raises.  Phrases that name a day of the month or a
\* calendar date are outside the phrases of the model.
DateutilParseOf(word, sh, now) ==
    IF /\ \E w \in 1..7 : WeekdayNames[w] = word
       /\ sh.ok
       /\ (sh.hasMin \/ sh.meridiem # <<>>)
    THEN LET w == (CHOOSE i \in 1..7 : WeekdayNames[i] = word) - 1
             d == now.day + ((w - Weekday(now.day)) % 7)
         IN  { IF o.raise THEN Raise
               ELSE Return(Instant(d, o.value.hour, o.value.minute, 0))
               : o \in DateutilTimeOf(sh) }
    ELSE {Raise}

\* the phrase split at its first space, at index at, into the word and the time
DateutilParseAt(datetime_str, at, now) ==
    IF at = 0 THEN {Raise}
    ELSE DateutilParseOf(SubSeq(datetime_str, 1, at - 1),
                         TimeShape(SubSeq(datetime_str, at + 1, Len(datetime_str))), now)

\* parser.parse(datetime_str) of parse_combined_datetime
DateutilParse(datetime_str, now) ==
    DateutilParseAt(datetime_str, Find(datetime_str, <<" ">>), now)

\* re.search(word + r'\s+(?:at\s+)?(\d{1,2}(?::\d{2})?\s*(?:am|pm)?)', s).group(1),
\* None without a match
TimeAfter(s, word) ==
    LET n == Len(word)
        \* the index of the digit that starts group 1 for the occurrence at i, else 0
        digitAt(i) ==
            IF SubSeq(s, i, i + n - 1) # word THEN 0
            ELSE LET a == SkipSpaces(s, i + n - 1)
                     b == IF /\ a + 2 <= Len(s)
                             /\ SubSeq(s, a + 1, a + 2) = <<"a","t">>
                             /\ SkipSpaces(s, a + 2) > a + 2
                          THEN SkipSpaces(s, a + 2) ELSE a
                 IN  IF a > i + n - 1 /\ b + 1 <= Len(s) /\ IsDigit(s[b + 1]) THEN b + 1 ELSE 0
        starts == {i \in 1..Len(s) : i + n - 1 <= Len(s) /\ digitAt(i) > 0}
    IN  IF starts = {} THEN None
        ELSE LET i == CHOOSE x \in starts : \A y \in starts : x <= y
             IN  SubSeq(s, digitAt(i), TimeMatchEnd(s, digitAt(i)))

\* parse_combined_datetime: the outcomes of the call (it raises when nothing parses).
\* datetime_str is lower-cased and stripped (line 284); the two time_match values are
\* those of lines 289 and 297
CombinedDatetime(datetime_str, tomorrow_match, today_match, now) ==
    IF Contains(datetime_str, <<"t","o","m","o","r","r","o","w">>)
    THEN IF tomorrow_match # None
         THEN _combine_date_and_time(AddDays(now, 1), tomorrow_match)
         ELSE DateutilParse(datetime_str, now)
    ELSE IF Contains(datetime_str, <<"t","o","d","a","y">>) /\ today_match # None
    THEN _combine_date_and_time(now, today_match)
    ELSE DateutilParse(datetime_str, now)

parse_combined_lowered(datetime_str, now) ==
    CombinedDatetime(datetime_str, TimeAfter(datetime_str, <<"t","o","m","o","r","r","o","w">>),
                     TimeAfter(datetime_str, <<"t","o","d","a","y">>), now)

parse_combined_datetime(text, now) == parse_combined_lowered(Strip(Lower(text)), now)

\* the number re.search(r'(\d{1,2})', s) finds: the first one or two digits, -1 if none
FirstHour(s) ==
    LET digits == {i \in 1..Len(s) : IsDigit(s[i])}
    IN  IF digits = {} THEN -1
        ELSE LET i == CHOOSE d \in digits : \A e \in digits : d <= e
             IN  IF i + 1 <= Len(s) /\ IsDigit(s[i + 1])
                 THEN 10 * DigitVal(s[i]) + DigitVal(s[i + 1])
                 ELSE DigitVal(s[i])

\* TimeOfDayOf with the 12-hour conversion applied to every pm hour and to no am
\* hour: 12 is not treated apart
TimeOfDayOf_no_twelve(s, sh, h, nowTime) ==
    LET h24 == IF Contains(s, <<"p","m">>) THEN h + 12 ELSE h
    IN  IF /\ sh.ok /\ sh.hasMin /\ sh.gap /\ sh.meridiem # <<>>
           /\ sh.hour \in 1..12 /\ sh.minute <= 59
        THEN [hour |-> IF sh.meridiem = <<"p","m">> /\ sh.hour # 12 THEN sh.hour + 12
                       ELSE IF sh.meridiem = <<"a","m">> /\ sh.hour = 12 THEN 0
                       ELSE sh.hour,
              minute |-> sh.minute, second |-> 0]
        ELSE IF sh.ok /\ ~sh.hasMin /\ sh.meridiem = <<>> /\ sh.hour <= 23
        THEN [hour |-> sh.hour, minute |-> 0, second |-> 0]
        ELSE IF sh.ok /\ sh.hasMin /\ sh.meridiem = <<>> /\ sh.hour <= 23 /\ sh.minute <= 59
        THEN [hour |-> sh.hour, minute |-> sh.minute, second |-> 0]
        ELSE IF h >= 0 /\ h24 <= 23
        THEN [hour |-> h24, minute |-> 0, second |-> 0]
        ELSE nowTime

\* The time part of parse_date_time: the formats "%I:%M %p", "%I %p", "%H:%M", "%H" in
\* turn (the two hour-only formats parse time_str + ":00" with "%H:%M"), then the
\* first number of the phrase with the 12-hour conversion, and the time of `now` when
\* there is no phrase, no number, or time() rejects the hour.  sh is the shape of
\* the phrase s and h its first number.
TimeOfDayOf(s, sh, h, nowTime) ==
    LET h24 == IF Contains(s, <<"p","m">>) /\ h # 12 THEN h + 12
               ELSE IF Contains(s, <<"a","m">>) /\ h = 12 THEN 0
               ELSE h
    IN  IF /\ sh.ok /\ sh.hasMin /\ sh.gap /\ sh.meridiem # <<>>
           /\ sh.hour \in 1..12 /\ sh.minute <= 59
        THEN [hour |-> IF sh.meridiem = <<"p","m">> /\ sh.hour # 12 THEN sh.hour + 12
                       ELSE IF sh.meridiem = <<"a","m">> /\ sh.hour = 12 THEN 0
                       ELSE sh.hour,
              minute |-> sh.minute, second |-> 0]
        ELSE IF sh.ok /\ ~sh.hasMin /\ sh.meridiem = <<>> /\ sh.hour <= 23
        THEN [hour |-> sh.hour, minute |-> 0, second |-> 0]
        ELSE IF sh.ok /\ sh.hasMin /\ sh.meridiem = <<>> /\ sh.hour <= 23 /\ sh.minute <= 59
        THEN [hour |-> sh.hour, minute |-> sh.minute, second |-> 0]
        ELSE IF h >= 0 /\ h24 <= 23
        THEN [hour |-> h24, minute |-> 0, second |-> 0]
        ELSE nowTime

\* the time of a phrase s that is stripped and lower-cased (line 227)
TimeOfDay(s, nowTime) == TimeOfDayOf(s, TimeShapeOf(s), FirstHour(s), nowTime)

\* now.time()
NowTime(now) == [hour |-> now.hour, minute |-> now.minute, second |-> now.second]

\* ParseTimeOfDay with midnight for the time of `now` when no time phrase is given
ParseTimeOfDay_midnight(time_str, now) ==
    IF Falsy(time_str) THEN [hour |-> 0, minute |-> 0, second |-> 0]
    ELSE TimeOfDay(Strip(Lower(time_str)), NowTime(now))

\* lines 225-266
ParseTimeOfDay(time_str, now) ==
    IF Falsy(time_str) THEN NowTime(now)
    ELSE TimeOfDay(Strip(Lower(time_str)), NowTime(now))

\* DayOf with `days_ahead < 0` at line 195: the weekday of today resolves to today
DayOf_same_day(s, now) ==
    IF s = <<"t","o","d","a","y">> THEN now.day
    ELSE IF s = <<"t","o","m","o","r","r","o","w">> THEN now.day + 1
    ELSE IF s = <<"n","e","x","t"," ","w","e","e","k">> THEN now.day + 7
    ELSE IF Len(s) >= 5 /\ SubSeq(s, 1, 5) = <<"n","e","x","t"," ">>
    THEN LET day_name == SubSeq(s, 6, Len(s))
         IN  IF \E w \in 1..7 : WeekdayNames[w] = day_name
             THEN LET target_day == (CHOOSE w \in 1..7 : WeekdayNames[w] = day_name) - 1
                      days_ahead == target_day - Weekday(now.day)
                  IN  now.day + (IF days_ahead < 0 THEN days_ahead + 7 ELSE days_ahead)
             ELSE -1
    ELSE now.day

\* The date part of parse_date_time as the day it yields, or -1 when it raises
\* ValueError (no date, or "next " before a word that is no weekday).  A phrase that
\* matches no keyword and none of the date formats yields today; phrases written in
\* one of the calendar-date formats are outside the phrases of the model.  s is the
\* phrase stripped and lower-cased (line 171).
DayOf(s, now) ==
    IF s = <<"t","o","d","a","y">> THEN now.day
    ELSE IF s = <<"t","o","m","o","r","r","o","w">> THEN now.day + 1
    ELSE IF s = <<"n","e","x","t"," ","w","e","e","k">> THEN now.day + 7
    ELSE IF Len(s) >= 5 /\ SubSeq(s, 1, 5) = <<"n","e","x","t"," ">>
    THEN LET day_name == SubSeq(s, 6, Len(s))
         IN  IF \E w \in 1..7 : WeekdayNames[w] = day_name
             THEN LET target_day == (CHOOSE w \in 1..7 : WeekdayNames[w] = day_name) - 1
                      days_ahead == target_day - Weekday(now.day)
                  IN  now.day + (IF days_ahead <= 0 THEN days_ahead + 7 ELSE days_ahead)
             ELSE -1
    ELSE now.day

\* lines 168-223
ParseDay(date_str, now) ==
    IF Falsy(date_str) THEN -1 ELSE DayOf(Strip(Lower(date_str)), now)

\* datetime.combine(target_date, target_time) of line 269, or datetime.now() of line
\* 274 when the date part raised
CombineDayAndTime(day, t, now) ==
    IF day < 0 THEN now ELSE Instant(day, t.hour, t.minute, t.second)

\* parse_date_time: it never raises; its outer except returns datetime.now()
parse_date_time(date_str, time_str, now) ==
    CombineDayAndTime(ParseDay(date_str, now), ParseTimeOfDay(time_str, now), now)

\* The parsing of both handlers that take a date and a time: the combined parser
\* first, and parse_date_time when it raises.  The set of instants the turn can get.
ParseDateAndTime(date_str, time_str, now) ==
    { IF o.raise THEN parse_date_time(date_str, time_str, now) ELSE o.value
      : o \in parse_combined_datetime(date_str \o <<" ">> \o time_str, now) }

(***************************************************************************)
(* Date and time extraction of the other handlers                          *)
(***************************************************************************)
\* the phrases _extract_date_from_message looks for, in the order of its tests
DatePhrases ==
    << <<"t","o","d","a","y">>, <<"t","o","m","o","r","r","o","w">>, <<"n","e","x","t"," ","w","e",
        "e","k">>, <<"n","e","x","t"," ","m","o","n","d","a","y">>, <<"n","e","x","t"," ","t","u",
        "e","s","d","a","y">>,
       <<"n","e","x","t"," ","w","e","d","n","e","s","d","a","y">>, <<"n","e","x","t"," ","t","h",
           "u","r","s","d","a","y">>, <<"n","e","x","t"," ","f","r","i","d","a","y">>, <<"n","e",
           "x","t"," ","s","a","t","u","r","d","a","y">>,
       <<"n","e","x","t"," ","s","u","n","d","a","y">> >>

\* _extract_date_from_message: the first phrase of the chain the message contains;
\* otherwise the completion when it is one of the phrases, and "today" when it is
\* not or when response.strip() raises
_extract_date_from_message(user_message, response) ==
    LET user_lower == Lower(user_message)
        found == {i \in 1..Len(DatePhrases) : Contains(user_lower, DatePhrases[i])}
    IN  IF found # {}
        THEN DatePhrases[CHOOSE i \in found : \A j \in found : i <= j]
        ELSE IF response # None /\ \E i \in 1..Len(DatePhrases) :
                                       DatePhrases[i] = Lower(Strip(response))
        THEN Lower(Strip(response))
        ELSE <<"t","o","d","a","y">>

\* the message holds one of the date phrases, so that no completion is asked for
HasDatePhrase(user_message) ==
    \E i \in 1..Len(DatePhrases) : Contains(Lower(user_message), DatePhrases[i])

\* characters matched by \w
IsWord(c) ==
    \/ IsDigit(c) \/ c = "_"
    \/ \E i \in 1..Len(LowerCase) : c = LowerCase[i] \/ c = UpperCase[i]

\* \b between s[e] and s[e + 1]
Boundary(s, e) ==
    (e >= 1 /\ e <= Len(s) /\ IsWord(s[e])) # (e + 1 >= 1 /\ e + 1 <= Len(s) /\ IsWord(s[e + 1]))

\* The ends of the matches of \d{1,2}(?::\d{2})?\s*(?:am|pm)? from the digit s[i] that
\* a \b follows, each with its rank in the order the regular expression tries them:
\* two digits before one, minutes before none, more spaces before fewer, a meridiem
\* before none.
BoundedTimeEnds(s, i) ==
    LET twoOK == i + 1 <= Len(s) /\ IsDigit(s[i + 1])
        minOK(e) == /\ e + 3 <= Len(s)
                    /\ s[e + 1] = ":"
                    /\ IsDigit(s[e + 2])
                    /\ IsDigit(s[e + 3])
        merOK(e) == e + 2 <= Len(s) /\ SubSeq(s, e + 1, e + 2) \in {<<"a","m">>, <<"p","m">>}
    IN  { [end |-> IF c.mer THEN c.sp + 2 ELSE c.sp,
           rank |-> <<IF c.two THEN 0 ELSE 1, IF c.min THEN 0 ELSE 1,
                      Len(s) - c.sp, IF c.mer THEN 0 ELSE 1>>]
          : c \in { x \in [two : BOOLEAN, min : BOOLEAN, sp : i..Len(s), mer : BOOLEAN] :
                      LET e1 == IF x.two THEN i + 1 ELSE i
                          e2 == IF x.min THEN e1 + 3 ELSE e1
                      IN  /\ x.two => twoOK
                          /\ x.min => minOK(e1)
                          /\ x.sp >= e2 /\ x.sp <= SkipSpaces(s, e2)
                          /\ x.mer => merOK(x.sp)
                          /\ Boundary(s, IF x.mer THEN x.sp + 2 ELSE x.sp) } }

\* lexicographic order of the ranks
RankLess(a, b) ==
    \E k \in 1..4 : a[k] < b[k] /\ \A j \in 1..(k - 1) : a[j] = b[j]

\* re.findall(r'\b(\d{1,2}(?::\d{2})?\s*(?:am|pm)?)\b', s)[0], None without a match
BoundedTimeSearch(s) ==
    LET starts == {i \in 1..Len(s) :
                      IsDigit(s[i]) /\ Boundary(s, i - 1) /\ BoundedTimeEnds(s, i) # {}}
    IN  IF starts = {} THEN None
        ELSE LET i == CHOOSE x \in starts : \A y \in starts : x <= y
                 ends == BoundedTimeEnds(s, i)
                 best == CHOOSE m \in ends : \A o \in ends : o = m \/ RankLess(m.rank, o.rank)
             IN  SubSeq(s, i, best.end)

\* _extract_time_from_message: the first match in the message; otherwise the stripped
\* completion, and None when response.strip() raises
_extract_time_from_message(user_message, response) ==
    IF BoundedTimeSearch(Lower(user_message)) # None
    THEN BoundedTimeSearch(Lower(user_message))
    ELSE IF response = None THEN None
    ELSE Strip(response)

\* the parsing of _handle_schedule and _handle_available_slots: midnight of today or
\* tomorrow for these two words, else the combined parser and, when it raises,
\* parse_date_time without a time.  The set of instants the turn can get.
ParseDateOnly(date_str, now) ==
    IF date_str = <<"t","o","d","a","y">> THEN {Instant(now.day, 0, 0, 0)}
    ELSE IF date_str = <<"t","o","m","o","r","r","o","w">> THEN {Instant(now.day + 1, 0, 0, 0)}
    ELSE { IF o.raise THEN parse_date_time(date_str, None, now) ELSE o.value
           : o \in parse_combined_datetime(date_str, now) }

(***************************************************************************)
(* The calendar (calendar_utils.py)                                        *)
(***************************************************************************)
\* seconds from day 0, 00:00:00, to compare instants
Seconds(t) == ((t.day * 24 + t.hour) * 60 + t.minute) * 60 + t.second

\* Overlaps with the end points counted in: an event that ends when the interval
\* starts, or starts when it ends, is selected too
Overlaps_touching(ev, start, end) ==
    Seconds(ev.end) >= Seconds(start) /\ Seconds(ev.start) <= Seconds(end)

\* an event overlaps [start, end) as events().list(timeMin, timeMax) selects it:
\* it ends after timeMin and starts before timeMax
Overlaps(ev, start, end) ==
    Seconds(ev.end) > Seconds(start) /\ Seconds(ev.start) < Seconds(end)

\* Events other users of the calendar hold on the day of a request, as the hours they
\* start and end at: none, a meeting from 10:00 to 11:00, or an event without a title
\* (it has no 'summary' key) that takes the whole day.
ExternalDays ==
    { {},
      {[from |-> 10, to |-> 11, summary |-> <<"R","e","v","i","e","w">>]},
      {[from |-> 0, to |-> 24, summary |-> None]} }

\* the events of an external day, placed on day d
ExternalEvents(ext, d) ==
    { [summary |-> e.summary,
       start |-> Instant(d, e.from, 0, 0),
       end |-> IF e.to = 24 THEN Instant(d + 1, 0, 0, 0) ELSE Instant(d, e.to, 0, 0)]
      : e \in ext }

\* how a request to the calendar API ends: it answers, it raises HttpError, or it
\* raises another exception (no connection, expired credentials)
Faults == {"none", "HttpError", "error"}

\* check_availability: True when the listing is empty, False on HttpError
check_availability(start_time, end_time, items, fault) ==
    IF fault = "HttpError" THEN Return(FALSE)
    ELSE IF fault = "error" THEN Raise
    ELSE Return({ev \in items : Overlaps(ev, start_time, end_time)} = {})

\* create_event: the created event, or the exception of the request (HttpError is
\* raised again)
create_event(summary, start_time, end_time, fault) ==
    IF fault = "none"
    THEN Return([summary |-> summary, start |-> start_time, end |-> end_time])
    ELSE Raise

\* the items ordered by start time (orderBy='startTime')
RECURSIVE ByStartTime(_)
ByStartTime(items) ==
    IF items = {} THEN <<>>
    ELSE LET first == CHOOSE ev \in items :
                          \A o \in items : Seconds(ev.start) <= Seconds(o.start)
         IN  <<first>> \o ByStartTime(items \ {first})

\* get_events_for_date: the events of the day from 00:00:00 to 23:59:59.999999, an
\* empty list on HttpError
get_events_for_date(date, items, fault) ==
    IF fault = "HttpError" THEN Return(<<>>)
    ELSE IF fault = "error" THEN Raise
    ELSE Return(ByStartTime({ev \in items :
                    Overlaps(ev, Instant(date.day, 0, 0, 0), Instant(date.day + 1, 0, 0, 0))}))

\* t + timedelta(minutes=n) for a time of day with minute + n below two hours
AddMinutes(t, n) ==
    LET m == t.hour * 60 + t.minute + n
    IN  IF m >= 1440 THEN [t EXCEPT !.day = t.day + 1, !.hour = (m - 1440) \div 60,
                                    !.minute = m % 60]
        ELSE [t EXCEPT !.hour = m \div 60, !.minute = m % 60]

\* t + timedelta(minutes=duration_minutes)
RECURSIVE AddDuration(_, _)
AddDuration(t, duration_minutes) ==
    IF duration_minutes <= 60 THEN AddMinutes(t, duration_minutes)
    ELSE AddDuration(AddMinutes(t, 60), duration_minutes - 60)

\* The requests of one scan: the number of the probe that fails and how (at is 0 when
\* none fails).
ScanPlans ==
    {[at |-> 0, fault |-> "none"]} \cup
    {[at |-> k, fault |-> f] : k \in {1, 4}, f \in {"HttpError", "error"}}

\* The while loop of get_available_slots from current_time on, probe number n: the
\* probes made, the slots found, and whether a probe raised.
RECURSIVE ScanFrom(_, _, _, _, _, _)
ScanFrom(current_time, business_end, duration_minutes, items, plan, n) ==
    LET end_time == AddDuration(current_time, duration_minutes)
        result == check_availability(current_time, end_time, items,
                                     IF plan.at = n THEN plan.fault ELSE "none")
        probe == [op |-> "check_availability", start |-> current_time, end |-> end_time,
                  fault |-> IF plan.at = n THEN plan.fault ELSE "none",
                  result |-> result]
        rest == ScanFrom(AddMinutes(current_time, 30), business_end, duration_minutes,
                         items, plan, n + 1)
    IN  IF Seconds(end_time) > Seconds(business_end)
        THEN [raise |-> FALSE, probes |-> <<>>, slots |-> <<>>]
        ELSE IF result.raise
        THEN [raise |-> TRUE, probes |-> <<probe>>, slots |-> <<>>]
        ELSE [raise |-> rest.raise,
              probes |-> <<probe>> \o rest.probes,
              slots |-> IF result.value
                        THEN <<[start |-> current_time, end |-> end_time]>> \o rest.slots
                        ELSE rest.slots]

\* get_available_slots with a loop that stops at the candidate that ends at 18:00
\* sharp: only candidates that end before 18:00 are probed
get_available_slots_before_close(date, duration_minutes, items, plan) ==
    ScanFrom(Instant(date.day, 9, 0, 0), Instant(date.day, 17, 59, 0), duration_minutes,
             items, plan, 1)

\* get_available_slots: business hours 09:00 to 18:00, a probe every 30 minutes
get_available_slots(date, duration_minutes, items, plan) ==
    ScanFrom(Instant(date.day, 9, 0, 0), Instant(date.day, 18, 0, 0), duration_minutes,
             items, plan, 1)

(***************************************************************************)
(* Replies of the agent (simple_llm_agent.py)                              *)
(***************************************************************************)
\* line 280
ChatError == [kind |-> "chat_error"]
\* line 294
NeedMoreInfo == [kind |-> "need_more_info"]
\* line 311
Conflict(date_str, time_str) == [kind |-> "conflict", date |-> date_str, time |-> time_str]
\* line 321
Booked(title, date_str, time_str) ==
    [kind |-> "booked", title |-> title, date |-> date_str, time |-> time_str]
\* line 323
CreateFailed == [kind |-> "create_failed"]
\* line 327
BookingError == [kind |-> "booking_error"]
\* line 337
AskDateTime == [kind |-> "ask_date_time"]
\* line 355
Available(date_str, time_str) == [kind |-> "available", date |-> date_str, time |-> time_str]
\* line 357
NotAvailable(date_str, time_str) ==
    [kind |-> "not_available", date |-> date_str, time |-> time_str]
\* line 361
AvailabilityError == [kind |-> "availability_error"]
\* line 479
NoEvents(date_str) == [kind |-> "no_events", date |-> date_str]
\* lines 482-491: one line per event
Schedule(date_str, items) ==
    [kind |-> "schedule", date |-> date_str,
     lines |-> [i \in 1..Len(items) |->
                   [hour |-> items[i].start.hour, minute |-> items[i].start.minute,
                    summary |-> items[i].summary]]]
\* line 495
ScheduleError == [kind |-> "schedule_error"]
\* line 532
NoSlots(date_str) == [kind |-> "no_slots", date |-> date_str]
\* lines 535-540: one line per slot
Slots(date_str, slots) == [kind |-> "slots", date |-> date_str, slots |-> slots]
\* line 544
SlotsError == [kind |-> "slots_error"]
\* line 557: the completion itself, whatever generate returned
Completion(response) == [kind |-> "completion", text |-> response]
\* line 561
StaticHelperText ==
    <<"I","'","m"," ","h","e","r","e"," ","t","o"," ","h","e","l","p"," ","w","i","t","h"," ","y",
        "o","u","r"," ","c","a","l","e","n","d","a","r","!"," ","Y","o","u"," ","c","a","n"," ","a",
        "s","k"," ","m","e"," ","t","o"," ","b","o","o","k"," ","m","e","e","t","i","n","g","s",",",
        " ","c","h","e","c","k"," ","y","o","u","r"," ","s","c","h","e","d","u","l","e",","," ","o",
        "r"," ","f","i","n","d"," ","a","v","a","i","l","a","b","l","e"," ","t","i","m","e","s",".">>
StaticHelper == [kind |-> "static_helper", text |-> StaticHelperText]

\* chat() has not returned in this turn
NoReply == [kind |-> "no_reply"]

\* a reply is a str: every reply is a literal or an f-string, except the completion
\* _handle_general_chat hands back unchecked
IsText(r) == r # NoReply /\ (r.kind = "completion" => r.text # None)

(***************************************************************************)
(* State                                                                   *)
(***************************************************************************)
VARIABLES
    llm_client,            \* class of self.llm_client
    conversation_history,  \* self.conversation_history
    events,                \* events this agent created in the calendar
    pc,                    \* where chat() stands: "idle", a step of a handler, "done"
    user_message,          \* argument of the running chat()
    now,                   \* datetime.now(): the clock reading of the run
    intent,                \* result of _understand_intent
    inference,             \* the last call of llm_client.generate in the turn
    date_str,              \* the date phrase the handler extracted
    time_str,              \* the time phrase the handler extracted
    title,                 \* the title _handle_booking books under
    parsed_date,           \* the parsed instant of the turn
    calls,                 \* calendar calls of the turn, in order
    reply,                 \* value chat() returned
    raised,                \* an exception left chat()
    answers,               \* what the inference service and the calendar answered
                           \* in the turn, in order (kept by the replayed runs)
    previous,              \* <<the turn before the running one>>, <<>> when none is kept
    requests               \* the requests the server has accepted, in the order they
                           \* came in (kept by the runs of the server)

vars == <<llm_client, conversation_history, events, pc, user_message, now, intent,
          inference, date_str, time_str, title, parsed_date, calls, reply, raised,
          answers, previous, requests>>

\* utterances of the model
Utterances ==
    { <<"B","o","o","k"," ","a"," ","m","e","e","t","i","n","g"," ","t","o","m","o","r","r","o","w",
        " ","a","t"," ","3","p","m">>,
      <<"b","o","o","k"," ","a"," ","m","e","e","t","i","n","g">>,
      <<"b","o","o","k"," ","l","u","n","c","h"," ","t","o","d","a","y"," ","a","t"," ","1","0"," ",
          "a","m">>,
      <<"s","h","o","w"," ","m","y"," ","s","c","h","e","d","u","l","e"," ","o","f"," ","m","e","e",
          "t","i","n","g","s"," ","t","o"," ","b","o","o","k">>,
      <<"c","h","e","c","k"," ","i","f"," ","1","5",":","0","0"," ","t","o","d","a","y"," ","o","r",
          " ","t","o","m","o","r","r","o","w"," ","i","s"," ","f","r","e","e">>,
      <<"f","i","n","d"," ","o","p","e","n"," ","s","l","o","t","s"," ","t","o","m","o","r","r","o",
          "w">>,
      <<"h","e","l","l","o">> }

\* utterances of the runs of several turns: two of the above and one that holds a
\* booking keyword and an availability keyword
TurnUtterances ==
    { <<"B","o","o","k"," ","a"," ","m","e","e","t","i","n","g"," ","t","o","m","o","r","r","o","w",
        " ","a","t"," ","3","p","m">>, <<"f","i","n","d"," ","o","p","e","n"," ","s","l","o","t",
        "s"," ","t","o","m","o","r","r","o","w">>,
      <<"b","o","o","k"," ","o","n","e"," ","o","f"," ","t","h","e"," ","f","r","e","e"," ","s","l",
          "o","t","s">> }

\* every text generate can return
Responses ==
    Completions \cup {ProviderErrorText, FallbackBookText, FallbackScheduleText,
                      FallbackAvailableText, FallbackDefaultText}

\* FallbackLLM.generate, _understand_intent and _extract_booking_info tabulated over
\* the utterances and responses of the model
FallbackTable ==
    [kind \in PromptKinds |-> [msg \in Utterances \cup TurnUtterances |-> FallbackLLM_generate(kind, msg)]]
IntentTable ==
    [msg \in Utterances \cup TurnUtterances |-> [r \in Responses |-> _understand_intent(msg, r)]]
BookingInfoTable ==
    [msg \in Utterances \cup TurnUtterances |-> [r \in Responses |-> _extract_booking_info(msg, r)]]

\* self.llm_client.generate(prompt) for a prompt of the given kind around msg
generate(client, kind, msg, outcome) ==
    IF client = "FallbackLLM" THEN FallbackTable[kind][msg]
    ELSE Provider_generate(outcome)

NoInference == [kind |-> "none", available |-> TRUE, response |-> None]
NoInstant == Instant(-1, 0, 0, 0)

\* SimpleLLMAgent.__init__: empty history, the client _initialize_llm selects
Init ==
    /\ \E env \in Environments : llm_client = _initialize_llm(env)
    /\ conversation_history = <<>>
    /\ events = {}
    /\ pc = "idle"
    /\ user_message = <<>>
    /\ now \in NowSet
    /\ intent = None
    /\ inference = NoInference
    /\ date_str = None
    /\ time_str = None
    /\ title = None
    /\ parsed_date = NoInstant
    /\ calls = <<>>
    /\ reply = NoReply
    /\ raised = FALSE
    /\ answers = <<>>
    /\ previous = <<>>
    /\ requests = <<>>

\* the record of one generate call: available is FALSE when no provider is
\* configured or the request to the provider failed
Inference(kind, outcome, response) ==
    [kind |-> kind,
     available |-> llm_client # "FallbackLLM" /\ outcome.ok,
     response |-> response]

\* Chat without line 258: the turn starts and the history is left alone
Chat_unrecorded(msg) ==
    /\ pc \in {"idle", "done"}
    /\ Len(conversation_history) < MaxHistory
    /\ user_message' = msg
    /\ pc' = "_understand_intent"
    /\ intent' = None
    /\ inference' = NoInference
    /\ date_str' = None
    /\ time_str' = None
    /\ title' = None
    /\ parsed_date' = NoInstant
    /\ calls' = <<>>
    /\ reply' = NoReply
    /\ UNCHANGED <<llm_client, conversation_history, events, now, raised>>

\* ChatUpTo with an assignment for the append of line 258: the history keeps the
\* latest message only
ChatUpTo_latest_only(msg, bound) ==
    /\ pc \in {"idle", "done"}
    /\ Len(conversation_history) < bound
    /\ conversation_history' = <<[user |-> msg, timestamp |-> now]>>
    /\ user_message' = msg
    /\ pc' = "_understand_intent"
    /\ intent' = None
    /\ inference' = NoInference
    /\ date_str' = None
    /\ time_str' = None
    /\ title' = None
    /\ parsed_date' = NoInstant
    /\ calls' = <<>>
    /\ reply' = NoReply
    /\ UNCHANGED <<llm_client, events, now, raised>>

\* chat(), lines 256-258, in an agent whose history holds fewer than bound
\* entries: the user's message is appended to the history
ChatUpTo(msg, bound) ==
    /\ pc \in {"idle", "done"}
    /\ Len(conversation_history) < bound
    /\ conversation_history' = Append(conversation_history, [user |-> msg, timestamp |-> now])
    /\ user_message' = msg
    /\ pc' = "_understand_intent"
    /\ intent' = None
    /\ inference' = NoInference
    /\ date_str' = None
    /\ time_str' = None
    /\ title' = None
    /\ parsed_date' = NoInstant
    /\ calls' = <<>>
    /\ reply' = NoReply
    /\ UNCHANGED <<llm_client, events, now, raised>>

\* chat(), lines 256-258
Chat(msg) == ChatUpTo(msg, MaxHistory)

SlotPhrases == { <<"f","i","n","d"," ","a","v","a","i","l","a","b","l","e">>, <<"a","v","a","i","l",
    "a","b","l","e"," ","s","l","o","t","s">>, <<"f","r","e","e"," ","s","l","o","t","s">>, <<"o",
    "p","e","n"," ","s","l","o","t","s">> }

\* Route reading the history: a message that follows another one is answered as
\* general chat
Route_follow_up(the_intent, msg) ==
    IF Len(conversation_history) > 1 THEN "_handle_general_chat"
    ELSE IF the_intent = BOOK_MEETING THEN "_handle_booking"
    ELSE IF the_intent = CHECK_SCHEDULE THEN "_handle_schedule"
    ELSE IF the_intent = CHECK_AVAILABILITY THEN "_handle_availability"
    ELSE IF ContainsAny(Lower(msg), SlotPhrases) THEN "_handle_available_slots"
    ELSE "_handle_general_chat"

\* Route with the slot phrases tested before the intent
Route_slots_first(the_intent, msg) ==
    IF ContainsAny(Lower(msg), SlotPhrases) THEN "_handle_available_slots"
    ELSE IF the_intent = BOOK_MEETING THEN "_handle_booking"
    ELSE IF the_intent = CHECK_SCHEDULE THEN "_handle_schedule"
    ELSE IF the_intent = CHECK_AVAILABILITY THEN "_handle_availability"
    ELSE "_handle_general_chat"

\* chat(), lines 265-276: the handler an intent is routed to
Route(the_intent, msg) ==
    IF the_intent = BOOK_MEETING THEN "_handle_booking"
    ELSE IF the_intent = CHECK_SCHEDULE THEN "_handle_schedule"
    ELSE IF the_intent = CHECK_AVAILABILITY THEN "_handle_availability"
    ELSE IF ContainsAny(Lower(msg), SlotPhrases) THEN "_handle_available_slots"
    ELSE "_handle_general_chat"

\* chat(), lines 260-276: classify the message and enter the handler
UnderstandIntent(outcome) ==
    /\ pc = "_understand_intent"
    /\ \E response \in {generate(llm_client, "intent", user_message, outcome)} :
           /\ inference' = Inference("intent", outcome, response)
           /\ intent' = IntentTable[user_message][response]
           /\ pc' = Route(IntentTable[user_message][response], user_message)
    /\ UNCHANGED <<llm_client, conversation_history, events, user_message, now,
                   date_str, time_str, title, parsed_date, calls, reply, raised>>

\* SlotsMissing with `and` for `or`: only a turn without date and without time
\* is incomplete
SlotsMissing_both(the_date, the_time) == Falsy(the_date) /\ Falsy(the_time)

\* _handle_booking, line 293, and _handle_availability, line 336:
\* `if not date_str or not time_str`
SlotsMissing(the_date, the_time) == Falsy(the_date) \/ Falsy(the_time)

\* _handle_booking, lines 284-307: extract the slots and parse them
BookingExtract(outcome) ==
    /\ pc = "_handle_booking"
    /\ \E response \in {generate(llm_client, "booking", user_message, outcome)} :
       \E info \in {BookingInfoTable[user_message][response]} :
           /\ inference' = Inference("booking", outcome, response)
           /\ date_str' = info.date
           /\ time_str' = info.time
           /\ title' = IF Falsy(info.title) THEN <<"M","e","e","t","i","n","g">> ELSE info.title
           /\ IF SlotsMissing(info.date, info.time)
              THEN /\ reply' = NeedMoreInfo
                   /\ pc' = "done"
                   /\ UNCHANGED parsed_date
              ELSE /\ parsed_date' \in ParseDateAndTime(info.date, info.time, now)
                   /\ pc' = "booking_check"
                   /\ UNCHANGED reply
    /\ UNCHANGED <<llm_client, conversation_history, events, user_message, now, intent,
                   calls, raised>>

\* the record of a calendar call in the log of the turn: the request, how it ended
\* at the calendar API and what the method returned
Call(op, start, end, fault, result) ==
    [op |-> op, start |-> start, end |-> end, fault |-> fault, result |-> result]

\* BookingCheck with the test of line 310 dropped: the event is created whatever
\* check_availability returned
BookingCheck_unchecked(ext, fault) ==
    /\ pc = "booking_check"
    /\ LET end_time == AddHour(parsed_date)
           items == events \cup ExternalEvents(ext, parsed_date.day)
           result == check_availability(parsed_date, end_time, items, fault)
       IN  /\ calls' = Append(calls, Call("check_availability", parsed_date, end_time, fault, result))
           /\ IF result.raise
              THEN reply' = BookingError /\ pc' = "done"
              ELSE reply' = reply /\ pc' = "booking_create"
    /\ UNCHANGED <<llm_client, conversation_history, events, user_message, now, intent,
                   inference, date_str, time_str, title, parsed_date, raised>>

\* _handle_booking, lines 309-311: ask the calendar whether the hour is free
BookingCheck(ext, fault) ==
    /\ pc = "booking_check"
    /\ LET end_time == AddHour(parsed_date)
           items == events \cup ExternalEvents(ext, parsed_date.day)
           result == check_availability(parsed_date, end_time, items, fault)
       IN  /\ calls' = Append(calls, Call("check_availability", parsed_date, end_time, fault, result))
           /\ IF result.raise
              THEN reply' = BookingError /\ pc' = "done"
              ELSE IF ~result.value
              THEN reply' = Conflict(date_str, time_str) /\ pc' = "done"
              ELSE reply' = reply /\ pc' = "booking_create"
    /\ UNCHANGED <<llm_client, conversation_history, events, user_message, now, intent,
                   inference, date_str, time_str, title, parsed_date, raised>>

\* BookingCreate with a second attempt: a create_event that raised is sent again
BookingCreate_retried(fault) ==
    /\ pc = "booking_create"
    /\ Cardinality(events) < MaxEvents
    /\ LET end_time == AddHour(parsed_date)
           result == create_event(title, parsed_date, end_time, fault)
       IN  /\ calls' = Append(calls, Call("create_event", parsed_date, end_time, fault, result))
           /\ IF result.raise
              THEN /\ reply' = reply
                   /\ pc' = IF Len(calls) < 4 THEN pc ELSE "done"
                   /\ UNCHANGED events
              ELSE /\ reply' = Booked(title, date_str, time_str)
                   /\ events' = events \cup {result.value}
                   /\ pc' = "done"
    /\ UNCHANGED <<llm_client, conversation_history, user_message, now, intent,
                   inference, date_str, time_str, title, parsed_date, raised>>

\* _handle_booking, lines 313-327: create the event and report, while the
\* calendar holds fewer than bound events of the agent
BookingCreateUpTo(fault, bound) ==
    /\ pc = "booking_create"
    /\ Cardinality(events) < bound
    /\ LET end_time == AddHour(parsed_date)
           result == create_event(title, parsed_date, end_time, fault)
       IN  /\ calls' = Append(calls, Call("create_event", parsed_date, end_time, fault, result))
           /\ IF result.raise
              THEN reply' = BookingError /\ UNCHANGED events
              ELSE /\ reply' = Booked(title, date_str, time_str)
                   /\ events' = events \cup {result.value}
    /\ pc' = "done"
    /\ UNCHANGED <<llm_client, conversation_history, user_message, now, intent,
                   inference, date_str, time_str, title, parsed_date, raised>>

BookingCreate(fault) == BookingCreateUpTo(fault, MaxEvents)

\* _handle_availability, line 333: the date phrase
AvailabilityDate(outcome) ==
    /\ pc = "_handle_availability"
    /\ \E response \in {generate(llm_client, "date", user_message, outcome)} :
           /\ date_str' = _extract_date_from_message(user_message, response)
           /\ inference' = IF HasDatePhrase(user_message) THEN inference
                           ELSE Inference("date", outcome, response)
    /\ pc' = "availability_time"
    /\ UNCHANGED <<llm_client, conversation_history, events, user_message, now, intent,
                   time_str, title, parsed_date, calls, reply, raised>>

\* _handle_availability, lines 334-349: the time phrase, then the parsing
AvailabilityTime(outcome) ==
    /\ pc = "availability_time"
    /\ \E response \in {generate(llm_client, "time", user_message, outcome)} :
       \E found \in {_extract_time_from_message(user_message, response)} :
           /\ time_str' = found
           /\ inference' = IF BoundedTimeSearch(Lower(user_message)) # None THEN inference
                           ELSE Inference("time", outcome, response)
           /\ IF SlotsMissing(date_str, found)
              THEN /\ reply' = AskDateTime
                   /\ pc' = "done"
                   /\ UNCHANGED parsed_date
              ELSE /\ parsed_date' \in ParseDateAndTime(date_str, found, now)
                   /\ pc' = "availability_check"
                   /\ UNCHANGED reply
    /\ UNCHANGED <<llm_client, conversation_history, events, user_message, now, intent,
                   date_str, title, calls, raised>>

\* AvailabilityCheck that books the hour it found free
AvailabilityCheck_books(ext, fault) ==
    /\ pc = "availability_check"
    /\ LET end_time == AddHour(parsed_date)
           items == events \cup ExternalEvents(ext, parsed_date.day)
           result == check_availability(parsed_date, end_time, items, fault)
           made == create_event(title, parsed_date, end_time, "none")
       IN  IF ~result.raise /\ result.value /\ Cardinality(events) < MaxEvents
           THEN /\ calls' = calls \o <<Call("check_availability", parsed_date, end_time,
                                             fault, result),
                                        Call("create_event", parsed_date, end_time,
                                             "none", made)>>
                /\ reply' = Available(date_str, time_str)
                /\ events' = events \cup {made.value}
           ELSE /\ calls' = Append(calls, Call("check_availability", parsed_date, end_time,
                                               fault, result))
                /\ reply' = IF result.raise THEN AvailabilityError
                            ELSE IF result.value THEN Available(date_str, time_str)
                            ELSE NotAvailable(date_str, time_str)
                /\ UNCHANGED events
    /\ pc' = "done"
    /\ UNCHANGED <<llm_client, conversation_history, user_message, now, intent,
                   inference, date_str, time_str, title, parsed_date, raised>>

\* _handle_availability, lines 351-361: ask the calendar and report
AvailabilityCheck(ext, fault) ==
    /\ pc = "availability_check"
    /\ LET end_time == AddHour(parsed_date)
           items == events \cup ExternalEvents(ext, parsed_date.day)
           result == check_availability(parsed_date, end_time, items, fault)
       IN  /\ calls' = Append(calls, Call("check_availability", parsed_date, end_time, fault, result))
           /\ reply' = IF result.raise THEN AvailabilityError
                       ELSE IF result.value THEN Available(date_str, time_str)
                       ELSE NotAvailable(date_str, time_str)
    /\ pc' = "done"
    /\ UNCHANGED <<llm_client, conversation_history, events, user_message, now, intent,
                   inference, date_str, time_str, title, parsed_date, raised>>

\* _handle_schedule, lines 445-473, and _handle_available_slots, lines 499-526: the
\* date phrase and its parsing
DateOnlyExtract(handler, next_pc, outcome) ==
    /\ pc = handler
    /\ \E response \in {generate(llm_client, "date", user_message, outcome)} :
       \E found \in {_extract_date_from_message(user_message, response)} :
           /\ date_str' = found
           /\ inference' = IF HasDatePhrase(user_message) THEN inference
                           ELSE Inference("date", outcome, response)
           /\ parsed_date' \in ParseDateOnly(found, now)
    /\ pc' = next_pc
    /\ UNCHANGED <<llm_client, conversation_history, events, user_message, now, intent,
                   time_str, title, calls, reply, raised>>

ScheduleExtract(outcome) == DateOnlyExtract("_handle_schedule", "schedule_list", outcome)

SlotsExtract(outcome) == DateOnlyExtract("_handle_available_slots", "slots_scan", outcome)

\* _handle_schedule, lines 475-495: list the events of the day; an event without a
\* 'summary' key raises KeyError in the formatting loop
ScheduleList(ext, fault) ==
    /\ pc = "schedule_list"
    /\ \E result \in {get_events_for_date(parsed_date,
                                           events \cup ExternalEvents(ext, parsed_date.day),
                                           fault)} :
           /\ calls' = Append(calls, Call("get_events_for_date", parsed_date, parsed_date,
                                          fault, result))
           /\ reply' = IF result.raise THEN ScheduleError
                       ELSE IF result.value = <<>> THEN NoEvents(date_str)
                       ELSE IF \E i \in 1..Len(result.value) : result.value[i].summary = None
                       THEN ScheduleError
                       ELSE Schedule(date_str, result.value)
    /\ pc' = "done"
    /\ UNCHANGED <<llm_client, conversation_history, events, user_message, now, intent,
                   inference, date_str, time_str, title, parsed_date, raised>>

\* the slot length _handle_available_slots asks for (line 529)
SlotMinutes == 60

\* _handle_available_slots, lines 528-544: scan the business hours and report
SlotsScan(ext, plan) ==
    /\ pc = "slots_scan"
    /\ \E scan \in {get_available_slots(parsed_date, SlotMinutes,
                                         events \cup ExternalEvents(ext, parsed_date.day),
                                         plan)} :
           /\ calls' = calls \o scan.probes
           /\ reply' = IF scan.raise THEN SlotsError
                       ELSE IF scan.slots = <<>> THEN NoSlots(date_str)
                       ELSE Slots(date_str, scan.slots)
    /\ pc' = "done"
    /\ UNCHANGED <<llm_client, conversation_history, events, user_message, now, intent,
                   inference, date_str, time_str, title, parsed_date, raised>>

\* _handle_general_chat, lines 548-561: hand the completion back
GeneralChat(outcome) ==
    /\ pc = "_handle_general_chat"
    /\ \E response \in {generate(llm_client, "chat", user_message, outcome)} :
           /\ inference' = Inference("chat", outcome, response)
           /\ reply' = Completion(response)
    /\ pc' = "done"
    /\ UNCHANGED <<llm_client, conversation_history, events, user_message, now, intent,
                   date_str, time_str, title, parsed_date, calls, raised>>

\* reset_conversation (and POST /reset-conversation in main.py)
reset_conversation ==
    /\ pc \in {"idle", "done"}
    /\ conversation_history # <<>>
    /\ conversation_history' = <<>>
    /\ UNCHANGED <<llm_client, events, pc, user_message, now, intent, inference,
                   date_str, time_str, title, parsed_date, calls, reply, raised>>

(***************************************************************************)
(* Properties                                                              *)
(***************************************************************************)
\* the calendar calls of the turn with the given operation
CallsOf(op) == {i \in 1..Len(calls) : calls[i].op = op}

\* the turn is past the step at which the handler extracted its slots
BookingExtracted == intent = BOOK_MEETING /\ pc \in {"booking_check", "booking_create", "done"}

\* C1: in a booking turn create_event is called only after check_availability was
\* called in the same turn for the same one-hour interval and returned True; once
\* check_availability has returned False the turn is over with the conflict reply and
\* without a create_event call.
C1_CreateOnlyWhenFree ==
    intent = BOOK_MEETING =>
        /\ \A j \in CallsOf("create_event") :
              /\ calls[j].end = AddHour(calls[j].start)
              /\ \E i \in CallsOf("check_availability") :
                    /\ i < j
                    /\ calls[i].start = calls[j].start
                    /\ calls[i].end = calls[j].end
                    /\ ~calls[i].result.raise
                    /\ calls[i].result.value
        /\ (\E i \in CallsOf("check_availability") :
                ~calls[i].result.raise /\ ~calls[i].result.value)
           => /\ pc = "done"
              /\ reply = Conflict(date_str, time_str)
              /\ CallsOf("create_event") = {}

\* a booking turn that created its event after the calendar said the hour is free
C1_Witness ==
    /\ pc = "done"
    /\ intent = BOOK_MEETING
    /\ reply.kind = "booked"
    /\ CallsOf("create_event") = {2}
    /\ calls[1].result = Return(TRUE)

\* C2: in a booking turn whose extraction leaves the date phrase or the time phrase
\* unset the reply is the request for more information and the turn makes no
\* calendar call.
C2_MissingSlotNoCalendarCall ==
    (BookingExtracted /\ (Falsy(date_str) \/ Falsy(time_str))) =>
        /\ pc = "done"
        /\ reply = NeedMoreInfo
        /\ calls = <<>>

\* a booking turn that has a date but no time and asked for more information
C2_Witness ==
    /\ pc = "done"
    /\ intent = BOOK_MEETING
    /\ ~Falsy(date_str)
    /\ Falsy(time_str)
    /\ reply = NeedMoreInfo

\* C3: whatever the inference client and the calendar do, chat() returns a text and
\* no exception leaves it.
C3_AlwaysTextReply ==
    pc = "done" => IsText(reply) /\ ~raised

\* C4: the keyword rules take precedence over the completion: when the keyword
\* rules match an intent for the utterance, that intent is the result.
C4_RulesTakePrecedence ==
    (inference.kind = "intent" /\ KeywordIntent(user_message) # GENERAL_CHAT) =>
        intent = KeywordIntent(user_message)

\* C4 as amended: the completion takes precedence: when generate returns a text, the
\* intent is the first of book_meeting, check_schedule, check_availability that the
\* lower-cased text contains, and general_chat when it contains none, whatever the
\* keyword rules say about the utterance.
C4_CompletionTakesPrecedence ==
    (inference.kind = "intent" /\ inference.response # None) =>
        LET text == Lower(inference.response)
        IN  intent = IF Contains(text, BOOK_MEETING) THEN BOOK_MEETING
                     ELSE IF Contains(text, CHECK_SCHEDULE) THEN CHECK_SCHEDULE
                     ELSE IF Contains(text, CHECK_AVAILABILITY) THEN CHECK_AVAILABILITY
                     ELSE GENERAL_CHAT

\* a turn classified by the completion against the keyword rules
C4_Witness ==
    /\ inference.kind = "intent"
    /\ inference.response # None
    /\ KeywordIntent(user_message) = BOOK_MEETING
    /\ intent = CHECK_SCHEDULE

\* C5: when inference is unavailable (the request to the provider failed, or no
\* provider is configured and the stub answers) the intent is the one the keyword
\* rules give.
C5_UnavailableFallsBackToRules ==
    (inference.kind = "intent" /\ ~inference.available) =>
        intent = KeywordIntent(user_message)

\* C6: when the keyword rules classify, schedule-query phrases are tested first, then
\* booking phrases, then availability phrases; an utterance with a schedule-query
\* phrase and a booking keyword is check_schedule.
C6_RuleOrder ==
    (inference.kind = "intent" /\ inference.response = None) =>
        LET user_lower == Lower(user_message)
            sched == ContainsAny(user_lower, ScheduleQueryPhrases)
            book == ContainsAny(user_lower, BookingPhrases)
            avail == ContainsAny(user_lower, AvailabilityPhrases)
        IN  /\ sched => intent = CHECK_SCHEDULE
            /\ (~sched /\ book) => intent = BOOK_MEETING
            /\ (~sched /\ ~book /\ avail) => intent = CHECK_AVAILABILITY
            /\ (~sched /\ ~book /\ ~avail) => intent = GENERAL_CHAT

\* the keyword rules classified an utterance with a schedule-query phrase and a
\* booking keyword
C6_Witness ==
    /\ inference.kind = "intent"
    /\ inference.response = None
    /\ Contains(Lower(user_message), <<"m","y"," ","s","c","h","e","d","u","l","e">>)
    /\ Contains(Lower(user_message), <<"b","o","o","k">>)
    /\ intent = CHECK_SCHEDULE

\* the booking turn stands right after its extraction call
AfterBookingCall == BookingExtracted /\ inference.kind = "booking"

\* C7: the rules run first: when the utterance has a date keyword or a digit time,
\* the extracted date or time is the rule result whatever the completion says.
C7_RulesFirst ==
    AfterBookingCall =>
        LET user_lower == Lower(user_message)
        IN  /\ KeywordDate(user_lower) # None => date_str = KeywordDate(user_lower)
            /\ TimeSearch(user_lower) # None => time_str = TimeSearch(user_lower)

\* the value a completion gives a field: the text after the first colon of the last
\* line that names the field (a line names the first of date:, time:, title: it
\* holds), None when no line names it or the value is "none"
FieldOfLines(lines, field) ==
    LET names(i) == IF Contains(Lower(lines[i]), <<"d","a","t","e",":">>) THEN "date"
                    ELSE IF Contains(Lower(lines[i]), <<"t","i","m","e",":">>) THEN "time"
                    ELSE "other"
        hits == {i \in 1..Len(lines) : names(i) = field}
    IN  IF hits = {} THEN None
        ELSE LET val == Strip(AfterFirstColon(lines[CHOOSE i \in hits : \A j \in hits : i >= j]))
             IN  IF Lower(val) = <<"n","o","n","e">> THEN None ELSE val

CompletionField(response, field) == FieldOfLines(Split(Strip(response), "\n"), field)

\* C7 as amended: the completion runs first: a date or time the completion gives is
\* the extracted date or time whatever the utterance holds, and the keyword and
\* digit rules fill only the fields the completion left unset.
C7_CompletionFirst ==
    (AfterBookingCall /\ inference.response # None) =>
        \A date \in {CompletionField(inference.response, "date")} :
        \A time \in {CompletionField(inference.response, "time")} :
        \A rule_date \in {KeywordDate(Lower(user_message))} :
        \A rule_time \in {TimeSearch(Lower(user_message))} :
            /\ ~Falsy(date) => date_str = date
            /\ ~Falsy(time) => time_str = time
            /\ (Falsy(date) /\ rule_date # None) => date_str = rule_date
            /\ (Falsy(time) /\ rule_time # None) => time_str = rule_time

\* the completion's date and time replaced the keyword and the digits of the utterance
C7_Witness ==
    /\ AfterBookingCall
    /\ KeywordDate(Lower(user_message)) = <<"t","o","m","o","r","r","o","w">>
    /\ TimeSearch(Lower(user_message)) = <<"3","p","m">>
    /\ date_str = <<"F","r","i","d","a","y">>
    /\ time_str = <<"9",":","3","0">>

\* the index of the first digit of s, 0 when it has none
FirstDigit(s) ==
    IF \E i \in 1..Len(s) : IsDigit(s[i])
    THEN CHOOSE i \in 1..Len(s) : IsDigit(s[i]) /\ \A j \in 1..(i - 1) : ~IsDigit(s[j])
    ELSE 0

\* C8: extraction never fails, and when the inference call raises or its text has no
\* date: or time: line the date is the keyword "today" or "tomorrow" the utterance
\* holds and the time starts at the first digit of the utterance; they stay unset
\* only without keyword or digit.
C8_RuleExtractionSurvives ==
    /\ (intent = BOOK_MEETING /\ reply = BookingError) =>
           \E i \in 1..Len(calls) : calls[i].result.raise
    /\ (AfterBookingCall /\ (inference.response = None
                             \/ (/\ ~Contains(Lower(inference.response), <<"d","a","t","e",":">>)
                                 /\ ~Contains(Lower(inference.response), <<"t","i","m","e",":">>)))) =>
        LET user_lower == Lower(user_message)
            tomorrow == Contains(user_lower, <<"t","o","m","o","r","r","o","w">>)
            today == Contains(user_lower, <<"t","o","d","a","y">>)
            d == FirstDigit(user_lower)
        IN  /\ (tomorrow /\ ~today) => date_str = <<"t","o","m","o","r","r","o","w">>
            /\ (today /\ ~tomorrow) => date_str = <<"t","o","d","a","y">>
            /\ (today /\ tomorrow) => date_str \in {<<"t","o","d","a","y">>, <<"t","o","m","o","r",
                "r","o","w">>}
            /\ (~today /\ ~tomorrow) => Falsy(date_str)
            /\ d = 0 => Falsy(time_str)
            /\ d > 0 => /\ ~Falsy(time_str)
                        /\ d + Len(time_str) - 1 <= Len(user_lower)
                        /\ time_str = SubSeq(user_lower, d, d + Len(time_str) - 1)
                        /\ IsDigit(time_str[1])

\* the inference call raised and the rules found "today" and "10 am"
C8_Witness ==
    /\ AfterBookingCall
    /\ inference.response = None
    /\ date_str = <<"t","o","d","a","y">>
    /\ time_str = <<"1","0"," ","a","m">>

\* C9: in a general chat turn with inference unavailable the reply is the static
\* helper message.
C9_StaticHelperWhenUnavailable ==
    (pc = "done" /\ inference.kind = "chat" /\ ~inference.available) =>
        reply = StaticHelper

C11_AppendOnly ==
    [][ \/ /\ Len(conversation_history) <= Len(conversation_history')
           /\ SubSeq(conversation_history', 1, Len(conversation_history))
                  = conversation_history
        \/ /\ conversation_history' = <<>>
           /\ pc \in {"idle", "done"}
           /\ UNCHANGED <<llm_client, events, pc, user_message, now, intent, inference,
                          date_str, time_str, title, parsed_date, calls, reply, raised>>
      ]_vars

\* a second turn returned and the entry of the first turn is still the first one
C11_Witness ==
    /\ pc = "done"
    /\ Len(conversation_history) = 2
    /\ conversation_history[1].user # user_message
    /\ conversation_history[2].user = user_message
(***************************************************************************)
(* Specification                                                           *)
(***************************************************************************)
\* a step of a run that keeps no record of the answers
Unobserved == UNCHANGED <<answers, previous, requests>>

\* the steps of a running chat(), after line 258
Handle ==
    \/ (\E o \in ProviderOutcomes : UnderstandIntent(o)) /\ Unobserved
    \/ (\E o \in ProviderOutcomes : BookingExtract(o)) /\ Unobserved
    \/ (\E ext \in ExternalDays, f \in Faults : BookingCheck(ext, f)) /\ Unobserved
    \/ (\E f \in Faults : BookingCreate(f)) /\ Unobserved
    \/ (\E o \in ProviderOutcomes : AvailabilityDate(o)) /\ Unobserved
    \/ (\E o \in ProviderOutcomes : AvailabilityTime(o)) /\ Unobserved
    \/ (\E ext \in ExternalDays, f \in Faults : AvailabilityCheck(ext, f)) /\ Unobserved
    \/ (\E o \in ProviderOutcomes : ScheduleExtract(o)) /\ Unobserved
    \/ (\E ext \in ExternalDays, f \in Faults : ScheduleList(ext, f)) /\ Unobserved
    \/ (\E o \in ProviderOutcomes : SlotsExtract(o)) /\ Unobserved
    \/ (\E ext \in ExternalDays, p \in ScanPlans : SlotsScan(ext, p)) /\ Unobserved
    \/ (\E o \in ProviderOutcomes : GeneralChat(o)) /\ Unobserved

Next ==
    \/ (\E msg \in Utterances : Chat(msg)) /\ Unobserved
    \/ Handle
    \/ reset_conversation /\ Unobserved

Spec == Init /\ [][Next]_vars

NextTurns ==
    \/ (\E msg \in TurnUtterances : ChatUpTo(msg, MaxTurns)) /\ Unobserved
    \/ Handle
    \/ reset_conversation /\ Unobserved

\* the agent over several turns
TurnsSpec == Init /\ [][NextTurns]_vars

\* the turn as chat() leaves it
TheTurn ==
    [user |-> user_message, answers |-> answers, intent |-> intent, date_str |-> date_str,
     time_str |-> time_str, title |-> title, calls |-> calls, reply |-> reply]

\* a new turn of a replayed run: the turn that returned is kept, and the same
\* message is sent again
Remembered ==
    /\ answers' = <<>>
    /\ previous' = IF pc = "done" THEN <<TheTurn>> ELSE previous
    /\ pc = "done" => user_message' = user_message
    /\ UNCHANGED requests

\* a step of a replayed run: the answers of the inference service are recorded (the
\* calendar's are in calls), and the services answer the running turn as they
\* answered the kept turn t, as far as both turns asked: the inference service call
\* by call, the calendar for each call of the same operation
Observed ==
    /\ answers' = IF inference' # inference THEN Append(answers, inference') ELSE answers
    /\ UNCHANGED <<previous, requests>>
    /\ \A t \in {previous[k] : k \in 1..Len(previous)} :
           /\ \A k \in 1..Len(answers') :
                  k <= Len(t.answers) => answers'[k] = t.answers[k]
           /\ \A k \in 1..Len(calls') :
                  (k <= Len(t.calls) /\ calls'[k].op = t.calls[k].op)
                      => /\ calls'[k].fault = t.calls[k].fault
                         /\ calls'[k].result = t.calls[k].result

NextReplay ==
    \/ (\E msg \in TurnUtterances : ChatUpTo(msg, MaxTurns)) /\ Remembered
    \/ (\E o \in ProviderOutcomes : UnderstandIntent(o)) /\ Observed
    \/ (\E o \in ProviderOutcomes : BookingExtract(o)) /\ Observed
    \/ (\E ext \in ExternalDays, f \in Faults : BookingCheck(ext, f)) /\ Observed
    \/ (\E f \in Faults : BookingCreate(f)) /\ Observed
    \/ (\E o \in ProviderOutcomes : AvailabilityDate(o)) /\ Observed
    \/ (\E o \in ProviderOutcomes : AvailabilityTime(o)) /\ Observed
    \/ (\E ext \in ExternalDays, f \in Faults : AvailabilityCheck(ext, f)) /\ Observed
    \/ (\E o \in ProviderOutcomes : ScheduleExtract(o)) /\ Observed
    \/ (\E ext \in ExternalDays, f \in Faults : ScheduleList(ext, f)) /\ Observed
    \/ (\E o \in ProviderOutcomes : SlotsExtract(o)) /\ Observed
    \/ (\E ext \in ExternalDays, p \in ScanPlans : SlotsScan(ext, p)) /\ Observed
    \/ (\E o \in ProviderOutcomes : GeneralChat(o)) /\ Observed

\* the same message sent to the agent turn after turn, answered the same way
ReplaySpec == Init /\ [][NextReplay]_vars

\* A session: turns one after the other without a reset.  The session ends after
\* MaxBookings turns, so every booking of it finds room in the model's calendar.
SessionNext ==
    \/ (\E msg \in {<<"B","o","o","k"," ","a"," ","m","e","e","t","i","n","g"," ","t","o","m","o",
        "r","r","o","w"," ","a","t"," ","3","p","m">>, <<"f","i","n","d"," ","o","p","e","n"," ",
        "s","l","o","t","s"," ","t","o","m","o","r","r","o","w">>} :
            ChatUpTo(msg, MaxBookings)) /\ Unobserved
    \/ Handle
    \/ (\E f \in Faults : BookingCreateUpTo(f, MaxBookings)) /\ Unobserved

\* The session with its scheduling: chat() runs in one thread of the interpreter, which
\* goes on to the next statement as soon as the call before it has returned or raised.
\* A running chat() therefore does not stay where it is for ever: it leaves each
\* position for another one, by one of the steps of SessionNext.
SessionSpec ==
    /\ Init
    /\ [][SessionNext]_vars
    /\ WF_pc(/\ pc \notin {"idle", "done"}
             /\ pc' \in {"_understand_intent", "_handle_booking", "booking_check",
                          "booking_create", "_handle_availability", "availability_time",
                          "availability_check", "_handle_schedule", "schedule_list",
                          "_handle_available_slots", "slots_scan", "_handle_general_chat",
                          "done"})

(***************************************************************************)
(* Properties of the replayed runs and of the calendar failures            *)
(***************************************************************************)
\* C12: a turn does not depend on the history: when the same message is sent again
\* and the services answer as before, the agent, whose history is now longer,
\* returns with the same intent, the same slots, the same calendar calls and the same
\* reply as the turn before, having asked the inference service the same number of
\* times.
C12_HistoryIndependent ==
    \A t \in {previous[k] : k \in 1..Len(previous)} :
        pc = "done" =>
            /\ user_message = t.user
            /\ intent = t.intent
            /\ date_str = t.date_str /\ time_str = t.time_str /\ title = t.title
            /\ Len(calls) = Len(t.calls)
            /\ \A k \in 1..Len(calls) : calls[k].op = t.calls[k].op
            /\ calls = t.calls
            /\ reply = t.reply
            /\ answers = t.answers

\* a second turn returned after its calendar call was answered as in the first
C12_Witness ==
    /\ previous # <<>>
    /\ pc = "done"
    /\ Len(conversation_history) = 2
    /\ calls # <<>>
    /\ answers # <<>>

\* C13: a turn in which a request to the calendar failed ends with an apology: the
\* reply is not that the slot is taken, that no events are scheduled or that no
\* slots were found.
C13_FailureIsApology ==
    (pc = "done" /\ \E k \in 1..Len(calls) : calls[k].fault # "none") =>
        reply.kind \notin {"conflict", "not_available", "no_events", "no_slots"}

\* C14: in a turn classified check_availability, a message that gives no date or no
\* time is answered with the request for both and no calendar call is made; the
\* calendar is asked only when the message holds a date phrase and a time.
C14_AskWhenMissing ==
    (intent = CHECK_AVAILABILITY /\ pc = "done") =>
        \A given \in {HasDatePhrase(user_message)
                          /\ BoundedTimeSearch(Lower(user_message)) # None} :
            /\ ~given => (reply = AskDateTime /\ calls = <<>>)
            /\ calls # <<>> => given

\* C15: a booking or availability turn whose phrases neither parser can resolve (the
\* combined parser raises, and the date phrase matches no date rule or the time
\* phrase holds no digit) makes no calendar call.
C15_UnparseableIsClarified ==
    (/\ pc = "done"
     /\ intent \in {BOOK_MEETING, CHECK_AVAILABILITY}
     /\ ~SlotsMissing(date_str, time_str)) =>
        \A d \in {Strip(Lower(date_str))} :
            (/\ \A o \in parse_combined_datetime(date_str \o <<" ">> \o time_str, now) : o.raise
             /\ \/ FirstHour(Strip(Lower(time_str))) = -1
                \/ /\ d \notin {<<"t","o","d","a","y">>, <<"t","o","m","o","r","r","o","w">>, <<"n",
                    "e","x","t"," ","w","e","e","k">>}
                   /\ \A w \in 1..7 : d # <<"n","e","x","t"," ">> \o WeekdayNames[w])
                => calls = <<>>

(***************************************************************************)
(* The temporal parser on its own                                          *)
(***************************************************************************)
\* str(n) for a number below 100
Numeral(n) ==
    IF n < 10 THEN <<DigitChars[n + 1]>>
    ELSE <<DigitChars[(n \div 10) + 1], DigitChars[(n % 10) + 1]>>

\* date phrases handed to parse_date_time
ParserDatePhrases ==
    { <<"t","o","d","a","y">>, <<"t","o","m","o","r","r","o","w">>, <<"y","e","s","t","e","r","d",
        "a","y">>, <<"n","e","x","t"," ","w","e","e","k">>, <<" ","N","e","x","t"," ","F","r","i",
        "d","a","y","\n">>,
      <<"n","e","x","t"," ","f","o","r","t","n","i","g","h","t">>, <<"s","o","m","e","d","a","y">>, None }
    \cup { <<"n","e","x","t"," ">> \o WeekdayNames[w] : w \in 1..7 }

\* time phrases handed to parse_date_time: every hour of the 12-hour clock with its
\* meridiem, every hour of the 24-hour clock with minutes, and phrases of other shapes
ParserTimePhrases ==
    { Numeral(h) \o m : h \in 1..12, m \in {<<"a","m">>, <<"p","m">>} }
    \cup { Numeral(h) \o <<":","0","0">> : h \in 0..23 }
    \cup { <<"1","0"," ","a","m">>, <<"3",":","3","0"," ","p","m">>, <<"3",":","3","0","p","m">>, <<"9",
        ":","3","0">>, <<"1","5">>, <<"1","3","p","m">>, <<"2","5">>,
           <<"n","o","o","n">>, <<>>, None }

\* an agent, started without API keys, that is about to resolve a phrase on any day
\* of the weeks
ParserInit ==
    /\ llm_client = _initialize_llm({})
    /\ conversation_history = <<>>
    /\ events = {}
    /\ pc = "idle"
    /\ user_message = <<>>
    /\ now \in { Instant(d, t.hour, t.minute, t.second) :
                     d \in 7..(7 * MaxWeeks + 6),
                     t \in { [hour |-> 9, minute |-> 30, second |-> 42],
                             [hour |-> 23, minute |-> 5, second |-> 0] } }
    /\ intent = None
    /\ inference = NoInference
    /\ date_str = None
    /\ time_str = None
    /\ title = None
    /\ parsed_date = NoInstant
    /\ calls = <<>>
    /\ reply = NoReply
    /\ raised = FALSE
    /\ answers = <<>>
    /\ previous = <<>>
    /\ requests = <<>>

\* self.calendar_manager.parse_date_time(date_str, time_str)
Resolve(the_date, the_time) ==
    /\ pc = "idle"
    /\ date_str' = the_date
    /\ time_str' = the_time
    /\ parsed_date' = parse_date_time(the_date, the_time, now)
    /\ pc' = "resolved"
    /\ UNCHANGED <<llm_client, conversation_history, events, user_message, now, intent,
                   inference, title, calls, reply, raised, answers, previous,
                   requests>>

ParserNext == \E the_date \in ParserDatePhrases, the_time \in ParserTimePhrases :
                  Resolve(the_date, the_time)

ParserSpec == ParserInit /\ [][ParserNext]_vars

(***************************************************************************)
(* Properties of the temporal parser                                       *)
(***************************************************************************)
\* C16: on every weekday of the reference instant and for every weekday W, "next W"
\* resolves to a day after the reference day, at most 7 days later, that is a W; on
\* a W it is the W of the week after.
C16_NextWeekday ==
    \A w \in 1..7 :
        (pc = "resolved" /\ Strip(Lower(date_str)) = <<"n","e","x","t"," ">> \o WeekdayNames[w]) =>
            /\ parsed_date.day > now.day
            /\ parsed_date.day <= now.day + 7
            /\ Weekday(parsed_date.day) = w - 1

\* "next friday" resolved on a Friday is the Friday a week later
C16_Witness ==
    /\ pc = "resolved"
    /\ date_str = <<"n","e","x","t"," ","f","r","i","d","a","y">>
    /\ Weekday(now.day) = 4
    /\ parsed_date.day = now.day + 7

\* C17: the literal keywords resolve relative to the reference date: "today" to it,
\* "tomorrow" to the day after, "yesterday" to the day before, "next week" to seven
\* days later.
C17_LiteralKeywords ==
    pc = "resolved" =>
        /\ date_str = <<"t","o","d","a","y">> => parsed_date.day = now.day
        /\ date_str = <<"t","o","m","o","r","r","o","w">> => parsed_date.day = now.day + 1
        /\ date_str = <<"y","e","s","t","e","r","d","a","y">> => parsed_date.day = now.day - 1
        /\ date_str = <<"n","e","x","t"," ","w","e","e","k">> => parsed_date.day = now.day + 7

\* C18: "tomorrow" without a time phrase resolves to the day after the reference
\* instant at the reference instant's time of day.
C18_TomorrowNoTime ==
    (pc = "resolved" /\ date_str = <<"t","o","m","o","r","r","o","w">> /\ time_str = None) =>
        parsed_date = Instant(now.day + 1, now.hour, now.minute, now.second)

\* "tomorrow" resolved at 09:30:42 without a time phrase
C18_Witness ==
    /\ pc = "resolved"
    /\ date_str = <<"t","o","m","o","r","r","o","w">>
    /\ time_str = None
    /\ now.second = 42
    /\ parsed_date = Instant(now.day + 1, 9, 30, 42)

\* C19: for the same date phrase, an hour of the 12-hour clock with am or pm
\* resolves to the instant its 24-hour form resolves to: h pm to (h + 12):00 unless
\* h is 12, 12 am to 0:00, any other h am to h:00.
C19_TwelveAndTwentyFour ==
    \A h \in 1..12 :
        /\ (pc = "resolved" /\ time_str = Numeral(h) \o <<"p","m">>) =>
               parsed_date = parse_date_time(date_str,
                                             Numeral(IF h # 12 THEN h + 12 ELSE h) \o <<":","0","0">>,
                                             now)
        /\ (pc = "resolved" /\ time_str = Numeral(h) \o <<"a","m">>) =>
               parsed_date = parse_date_time(date_str,
                                             Numeral(IF h = 12 THEN 0 ELSE h) \o <<":","0","0">>,
                                             now)

\* "12pm" tomorrow resolved to noon of the day after the reference day
C19_Witness ==
    /\ pc = "resolved"
    /\ date_str = <<"t","o","m","o","r","r","o","w">>
    /\ time_str = <<"1","2","p","m">>
    /\ parsed_date = Instant(now.day + 1, 12, 0, 0)

\* C20: every instant the parser returns has seconds zero.
C20_SecondsZero ==
    pc = "resolved" => parsed_date.second = 0
(***************************************************************************)
(* The business-hours scan on its own                                      *)
(***************************************************************************)
\* events the calendar can hold on day d: a meeting from 10:00 to 11:00, short ones
\* off the half-hour grid and at noon, and one that runs past the business hours
DayEvents(d) ==
    { [summary |-> <<"R","e","v","i","e","w">>, start |-> Instant(d, 10, 0, 0), end |-> Instant(d, 11, 0, 0)],
      [summary |-> <<"C","a","l","l">>, start |-> Instant(d, 9, 15, 0), end |-> Instant(d, 9, 45, 0)],
      [summary |-> <<"L","u","n","c","h">>, start |-> Instant(d, 12, 0, 0), end |-> Instant(d, 12, 30, 0)],
      [summary |-> <<"D","i","n","n","e","r">>, start |-> Instant(d, 17, 30, 0), end |-> Instant(d, 18, 30, 0)] }

\* slot lengths a scan is asked for, in minutes
ScanDurations == {1, 30, 45, SlotMinutes, 90, 540, 541, 600}

\* an agent about to scan a day of a calendar that holds any of the events
ScanInit ==
    /\ llm_client = _initialize_llm({})
    /\ conversation_history = <<>>
    /\ \E d \in {8} : /\ events \in SUBSET DayEvents(d)
                      /\ parsed_date \in {Instant(d, 0, 0, 0), Instant(d, 14, 30, 0)}
    /\ pc = "idle"
    /\ user_message = <<>>
    /\ now \in NowSet
    /\ intent = None
    /\ inference = NoInference
    /\ date_str = <<"t","o","m","o","r","r","o","w">>
    /\ time_str = None
    /\ title = None
    /\ calls = <<>>
    /\ reply = NoReply
    /\ raised = FALSE
    /\ answers = <<>>
    /\ previous = <<>>
    /\ requests = <<>>

\* self.calendar_manager.get_available_slots(parsed_date, duration_minutes) and what
\* lines 531-540 of _handle_available_slots report for its result
Scan(duration_minutes, plan) ==
    /\ pc = "idle"
    /\ \E scan \in {get_available_slots(parsed_date, duration_minutes, events, plan)} :
           /\ calls' = scan.probes
           /\ reply' = [kind |-> "scan",
                        duration_minutes |-> duration_minutes,
                        report |-> IF scan.raise THEN SlotsError
                                   ELSE IF scan.slots = <<>> THEN NoSlots(date_str)
                                   ELSE Slots(date_str, scan.slots)]
    /\ pc' = "scanned"
    /\ UNCHANGED <<llm_client, conversation_history, events, user_message, now, intent,
                   inference, date_str, time_str, title, parsed_date, raised, answers,
                   previous, requests>>

ScanNext == \E duration_minutes \in ScanDurations, plan \in ScanPlans :
                Scan(duration_minutes, plan)

ScanSpec == ScanInit /\ [][ScanNext]_vars

(***************************************************************************)
(* Properties of the scan                                                  *)
(***************************************************************************)
\* C21: a scan that every probe of was answered reports a candidate exactly when no
\* event of the calendar overlaps it, touching end points not counting as overlap; for
\* 60-minute slots on a day whose only event is 10:00-11:00 it reports 09:00-10:00 and
\* 11:00-12:00 and none of 09:30-10:30, 10:00-11:00, 10:30-11:30.
C21_FreeSlots ==
    (pc = "scanned" /\ \A k \in 1..Len(calls) : calls[k].fault = "none") =>
      \A ReportedSlots \in {IF reply.report.kind = "slots"
                            THEN {reply.report.slots[k] : k \in 1..Len(reply.report.slots)}
                            ELSE {}} :
        /\ \A k \in 1..Len(calls) :
               ([start |-> calls[k].start, end |-> calls[k].end] \in ReportedSlots)
               <=> \A ev \in events : \/ Seconds(ev.end) <= Seconds(calls[k].start)
                                      \/ Seconds(calls[k].end) <= Seconds(ev.start)
        /\ \A d \in {parsed_date.day} :
             (reply.duration_minutes = 60
              /\ events = {[summary |-> <<"R","e","v","i","e","w">>, start |-> Instant(d, 10, 0, 0),
                            end |-> Instant(d, 11, 0, 0)]}) =>
                 /\ [start |-> Instant(d, 9, 0, 0), end |-> Instant(d, 10, 0, 0)]
                        \in ReportedSlots
                 /\ [start |-> Instant(d, 11, 0, 0), end |-> Instant(d, 12, 0, 0)]
                        \in ReportedSlots
                 /\ \A s \in ReportedSlots :
                        s.start \notin {Instant(d, 9, 30, 0), Instant(d, 10, 0, 0),
                                        Instant(d, 10, 30, 0)}

\* a 60-minute scan of a day that holds the 10:00-11:00 meeting only went through
\* and reported the fourteen other candidates
C21_Witness ==
    /\ pc = "scanned"
    /\ reply.duration_minutes = 60
    /\ Cardinality(events) = 1
    /\ \E ev \in events : ev.start.hour = 10 /\ ev.end.hour = 11
    /\ \A k \in 1..Len(calls) : calls[k].fault = "none"
    /\ Len(calls) = 17
    /\ reply.report.kind = "slots"
    /\ Len(reply.report.slots) = 14

\* C27: a scan for slots of d minutes that no probe raised in probes the candidates
\* 09:00 + 30k minutes in increasing order exactly while they end by 18:00 (17 for
\* d = 60, none for d > 540); every slot it reports is one of its candidates, d minutes
\* long, within 09:00-18:00, in increasing start order; and the report is the explicit
\* no-slots reply exactly when no candidate was free.
C27_ScanShape ==
    (pc = "scanned" /\ \A k \in 1..Len(calls) : ~calls[k].result.raise) =>
      \A d \in {reply.duration_minutes} :
      \A open \in {Seconds(Instant(parsed_date.day, 9, 0, 0))} :
      \A close \in {Seconds(Instant(parsed_date.day, 18, 0, 0))} :
        /\ Len(calls) = Cardinality({k \in 0..17 : open + 1800 * k + 60 * d <= close})
        /\ d = 60 => Len(calls) = 17
        /\ d > 540 => Len(calls) = 0
        /\ \A k \in 1..Len(calls) :
               /\ Seconds(calls[k].start) = open + 1800 * (k - 1)
               /\ Seconds(calls[k].end) = Seconds(calls[k].start) + 60 * d
        /\ reply.report.kind \in {"slots", "no_slots"}
        /\ reply.report.kind = "no_slots"
               <=> \A k \in 1..Len(calls) : ~calls[k].result.value
        /\ reply.report.kind = "slots" =>
             \A slots \in {reply.report.slots} :
               /\ slots # <<>>
               /\ \A i \in 1..Len(slots) :
                      /\ Seconds(slots[i].end) = Seconds(slots[i].start) + 60 * d
                      /\ open <= Seconds(slots[i].start)
                      /\ Seconds(slots[i].end) <= close
                      /\ \E k \in 1..Len(calls) :
                             /\ calls[k].start = slots[i].start
                             /\ calls[k].result.value
                      /\ i > 1 => Seconds(slots[i - 1].start) < Seconds(slots[i].start)

\* a 60-minute scan made its seventeen probes, the last one for 17:00-18:00, and
\* found some candidates free and others taken
C27_Witness ==
    /\ pc = "scanned"
    /\ reply.duration_minutes = 60
    /\ Len(calls) = 17
    /\ calls[17].end.hour = 18
    /\ reply.report.kind = "slots"
    /\ Len(reply.report.slots) \in 1..16
    /\ \A k \in 1..Len(calls) : ~calls[k].result.raise

(***************************************************************************)
(* Properties of the calls and branches of a turn                          *)
(***************************************************************************)
\* C22: in one turn create_event is called at most once, whether it or the call
\* before it failed, no request to the calendar is made a second time, and at most one
\* event is added to the calendar.
C22_CreateOnce ==
    /\ Cardinality({k \in 1..Len(calls) : calls[k].op = "create_event"}) <= 1
    /\ \A j, k \in 1..Len(calls) :
           (j < k /\ calls[j].op = calls[k].op /\ calls[j].start = calls[k].start)
               => calls[j].end # calls[k].end
    /\ \A k \in 1..Len(calls) :
           (calls[k].op = "create_event" \/ calls[k].result.raise) => k = Len(calls)
    /\ Cardinality({ev \in events :
                       \E k \in 1..Len(calls) : /\ calls[k].op = "create_event"
                                                /\ ~calls[k].result.raise
                                                /\ calls[k].result.value = ev}) <= 1

\* a booking turn ended after its one create_event call raised: no event was added
C22_Witness ==
    /\ pc = "done"
    /\ Len(calls) = 2
    /\ calls[1].op = "check_availability"
    /\ calls[2].op = "create_event"
    /\ calls[2].result.raise
    /\ reply = BookingError
    /\ events = {}

\* C29 as stated: the slot handler runs only for the intent general_chat and a message
\* with a slot phrase, and a message with 'available' or 'free' that the keyword rules
\* classify is handled as an availability check.
C29_AvailableIsAvailability ==
    \A said \in {Lower(user_message)} :
        /\ pc \in {"_handle_available_slots", "slots_scan"} =>
               intent = GENERAL_CHAT /\ ContainsAny(said, SlotPhrases)
        /\ (/\ pc \in {"_handle_booking", "_handle_schedule", "_handle_availability",
                       "_handle_available_slots", "_handle_general_chat"}
            /\ inference.response = None
            /\ ContainsAny(said, {<<"a","v","a","i","l","a","b","l","e">>, <<"f","r","e","e">>})) =>
               pc = "_handle_availability"

\* C29: the slot handler runs only for the intent general_chat and a message with a
\* slot phrase; a message with 'available' or 'free' that the keyword rules classify
\* is handled as a schedule query, a booking or an availability check, in the order of
\* the rules, never as general chat; so after the keyword rules the slot handler runs
\* only for a message with 'open slots'.
C29_SlotsOnlyThroughOpenSlots ==
    \A said \in {Lower(user_message)} :
        /\ pc \in {"_handle_available_slots", "slots_scan"} =>
               intent = GENERAL_CHAT /\ ContainsAny(said, SlotPhrases)
        /\ (/\ pc \in {"_handle_booking", "_handle_schedule", "_handle_availability",
                       "_handle_available_slots", "_handle_general_chat"}
            /\ inference.response = None
            /\ ContainsAny(said, {<<"a","v","a","i","l","a","b","l","e">>, <<"f","r","e","e">>})) =>
               /\ pc \in {"_handle_booking", "_handle_schedule", "_handle_availability"}
               /\ intent = KeywordIntent(user_message)
               /\ intent # GENERAL_CHAT
        /\ (pc = "_handle_available_slots" /\ inference.response = None) =>
               Contains(said, <<"o","p","e","n"," ","s","l","o","t","s">>)

\* the keyword rules classified a message that holds 'free slots' and 'book': the
\* booking handler is entered, not the slot handler
C29_Witness ==
    /\ pc = "_handle_booking"
    /\ inference.kind = "intent"
    /\ inference.response = None
    /\ Contains(Lower(user_message), <<"f","r","e","e"," ","s","l","o","t","s">>)

\* C30: no step changes the inference client, which __init__ chose as the first of
\* Groq, OpenAI, Anthropic whose key is set and else the stub; the history changes only
\* when a turn starts, by one entry appended, or when it is reset between turns; and
\* the calendar gets an event, and create_event is called, only in a turn whose intent
\* is book_meeting.
C30_TurnFrame ==
    [][ /\ llm_client' = llm_client
        /\ \A env \in SUBSET {"GROQ_API_KEY", "OPENAI_API_KEY", "ANTHROPIC_API_KEY"} :
             \A chosen \in {_initialize_llm(env)} :
               /\ chosen = "GroqClient" <=> "GROQ_API_KEY" \in env
               /\ chosen = "OpenAIClient" <=> ("OPENAI_API_KEY" \in env
                                               /\ "GROQ_API_KEY" \notin env)
               /\ chosen = "AnthropicClient" <=> env = {"ANTHROPIC_API_KEY"}
               /\ chosen = "FallbackLLM" <=> env = {}
        /\ conversation_history' # conversation_history =>
             /\ pc \in {"idle", "done"}
             /\ \/ /\ pc' = "_understand_intent"
                   /\ Len(conversation_history') = Len(conversation_history) + 1
                   /\ SubSeq(conversation_history', 1, Len(conversation_history))
                          = conversation_history
                \/ /\ pc' = pc
                   /\ conversation_history' = <<>>
        /\ events' # events => intent = BOOK_MEETING /\ pc = "booking_create"
        /\ \A k \in 1..Len(calls') :
               calls'[k].op = "create_event" => intent' = BOOK_MEETING
      ]_vars

\* a turn of an agent that runs on the Groq client asked whether an hour is free,
\* was told so, and ended with the calendar as it was
C30_Witness ==
    /\ pc = "done"
    /\ llm_client = "GroqClient"
    /\ intent = CHECK_AVAILABILITY
    /\ reply.kind = "available"
    /\ Len(calls) = 1
    /\ calls[1].op = "check_availability"
    /\ events = {}
    /\ Len(conversation_history) = 1

\* C26 as stated: when the inference calls fail (the request fails and the client
\* answers with its fixed text, or the completion is null), the date and time phrases
\* the availability branch works with are those _extract_booking_info gives for the
\* same message.
C26_SameExtraction ==
    (intent = CHECK_AVAILABILITY /\ pc \in {"availability_check", "done"}) =>
        \A r \in {None, ProviderErrorText} :
            (/\ date_str = _extract_date_from_message(user_message, r)
             /\ time_str = _extract_time_from_message(user_message, r)) =>
                \A info \in {BookingInfoTable[user_message][r]} :
                    date_str = info.date /\ time_str = info.time

\* C28: the events the agent created never overlap one another, and each of them runs
\* from its start to one hour later.
C28_NoDoubleBooking ==
    /\ \A ev \in events :
           /\ Seconds(ev.end) = Seconds(ev.start) + 3600
           /\ Seconds(ev.end) > Seconds(ev.start)
    /\ \A e1, e2 \in events :
           e1 # e2 => \/ Seconds(e1.end) <= Seconds(e2.start)
                      \/ Seconds(e2.end) <= Seconds(e1.start)

\* after two turns the calendar holds two events of the agent, and the second turn got
\* its hour only after check_availability had answered that it was free
C28_Witness ==
    /\ pc = "done"
    /\ Cardinality(events) = 2
    /\ Len(conversation_history) = 2
    /\ Len(calls) = 2
    /\ calls[1].op = "check_availability"
    /\ calls[1].fault = "none"
    /\ calls[1].result.value
    /\ calls[2].op = "create_event"
    /\ ~calls[2].result.raise

\* C25: every turn runs from the start of chat() through the classification into one
\* handler and to the reply: the intent is one of the four categories as soon as the
\* classification is done, the steps after it stay in the handler the intent and the
\* message select until the turn is done, and every turn that has started ends with a
\* value returned.
C25_CompleteRun ==
    /\ [](pc \notin {"idle", "_understand_intent"} =>
              intent \in {BOOK_MEETING, CHECK_SCHEDULE, CHECK_AVAILABILITY, GENERAL_CHAT})
    /\ [][ pc' # pc =>
           \A handlers \in {[booking |-> {"_handle_booking", "booking_check",
                                          "booking_create"},
                             schedule |-> {"_handle_schedule", "schedule_list"},
                             availability |-> {"_handle_availability",
                                               "availability_time", "availability_check"},
                             slots |-> {"_handle_available_slots", "slots_scan"},
                             general |-> {"_handle_general_chat"}]} :
             /\ pc \in {"idle", "done"} => pc' = "_understand_intent"
             /\ pc = "_understand_intent" =>
                  pc' = CASE intent' = BOOK_MEETING -> "_handle_booking"
                          [] intent' = CHECK_SCHEDULE -> "_handle_schedule"
                          [] intent' = CHECK_AVAILABILITY -> "_handle_availability"
                          [] OTHER -> IF ContainsAny(Lower(user_message), SlotPhrases)
                                      THEN "_handle_available_slots"
                                      ELSE "_handle_general_chat"
             /\ \A h \in DOMAIN handlers :
                    pc \in handlers[h] => /\ pc' \in handlers[h] \cup {"done"}
                                          /\ intent' = intent
             /\ pc' = "done" => reply' # NoReply /\ ~raised'
       ]_vars
    /\ (pc \notin {"idle", "done"}) ~> (pc = "done" /\ reply # NoReply)

\* a turn ran through the booking handler to its end: classified as book_meeting, one
\* check, one create_event, and the reply that the meeting is booked
C25_Witness ==
    /\ pc = "done"
    /\ intent = BOOK_MEETING
    /\ reply.kind = "booked"
    /\ Len(calls) = 2

(***************************************************************************)
(* The server (main.py)                                                    *)
(***************************************************************************)
\* A request comes in: POST /chat with a JSON object that holds a message (message is
\* None when the object has no 'message' key), or POST /reset-conversation.  The
\* requests of a run come in together, before the server starts on the first of them,
\* and wait in flight, in the order in which the event loop takes them up; response is
\* NoReply until the request is answered.
Post(path, message) ==
    /\ Len(requests) < MaxRequests
    /\ \A k \in 1..Len(requests) : requests[k].at = "waiting"
    /\ requests' = Append(requests, [path |-> path, message |-> message, at |-> "waiting",
                                     success |-> FALSE, response |-> NoReply])
    /\ UNCHANGED <<llm_client, conversation_history, events, pc, user_message, now, intent,
                   inference, date_str, time_str, title, parsed_date, calls, reply, raised,
                   answers, previous>>

\* LoopFree for endpoints declared with def: they run in the threads of a pool, started
\* whatever else runs
LoopFree_threads(k) == k \in 1..Len(requests)

\* The endpoints are coroutines (async def, lines 98 and 141) that hold no await, and
\* agent.chat is an ordinary call (line 110): the event loop runs an endpoint from its
\* first statement to its return before it starts the next one, so the loop is free
\* for request k when every request before it is answered.
LoopFree(k) == \A j \in 1..(k - 1) : requests[j].at = "answered"

\* chat_endpoint, lines 100-110: a request without a message is answered through the
\* except branch of line 117; any other one calls agent.chat
chat_endpoint(k) ==
    /\ LoopFree(k)
    /\ requests[k].path = "/chat"
    /\ requests[k].at = "waiting"
    /\ IF Falsy(requests[k].message)
       THEN /\ requests' = [requests EXCEPT ![k].at = "answered",
                                            ![k].response = [kind |-> "endpoint_error"]]
            /\ UNCHANGED <<conversation_history, pc, user_message, now, intent, inference,
                           date_str, time_str, title, parsed_date, calls, reply>>
       ELSE /\ Chat(requests[k].message)
            /\ requests' = [requests EXCEPT ![k].at = "running"]
    /\ UNCHANGED <<llm_client, events, raised, answers, previous>>

\* chat_endpoint, lines 110-115: agent.chat has returned, its value is sent back, and
\* what the call held is gone (the request keeps what kind of reply it was, and for a
\* completion its text)
chat_return(k) ==
    /\ requests[k].at = "running"
    /\ pc = "done"
    /\ requests' = [requests EXCEPT
                       ![k].at = "answered",
                       ![k].success = TRUE,
                       ![k].response = IF reply.kind = "completion" THEN reply
                                       ELSE [kind |-> reply.kind]]
    /\ pc' = "idle"
    /\ user_message' = <<>>
    /\ intent' = None
    /\ inference' = NoInference
    /\ date_str' = None
    /\ time_str' = None
    /\ title' = None
    /\ parsed_date' = NoInstant
    /\ calls' = <<>>
    /\ reply' = NoReply
    /\ UNCHANGED <<llm_client, conversation_history, events, now, raised, answers,
                   previous>>

\* POST /reset-conversation, lines 143-153: the history is replaced by an empty list
reset_endpoint(k) ==
    /\ LoopFree(k)
    /\ requests[k].path = "/reset-conversation"
    /\ requests[k].at = "waiting"
    /\ conversation_history' = <<>>
    /\ requests' = [requests EXCEPT ![k].at = "answered", ![k].success = TRUE,
                                    ![k].response = [kind |-> "history_cleared"]]
    /\ UNCHANGED <<llm_client, events, pc, user_message, now, intent, inference, date_str,
                   time_str, title, parsed_date, calls, reply, raised, answers, previous>>

\* The steps of the server.  The one message with a text that the model posts is
\* never routed to the slot handler, so the steps of that handler are left out.
ServerNext ==
    \/ \E r \in {[path |-> "/chat", message |-> m] : m \in {None, <<>>, <<"h","e","l","l","o">>}}
                 \cup {[path |-> "/reset-conversation", message |-> None]} :
           Post(r.path, r.message)
    \/ \E k \in 1..Len(requests) : chat_endpoint(k)
    \/ \E k \in 1..Len(requests) : chat_return(k)
    \/ \E k \in 1..Len(requests) : reset_endpoint(k)
    \/ (\E o \in ProviderOutcomes : UnderstandIntent(o)) /\ Unobserved
    \/ (\E o \in ProviderOutcomes : BookingExtract(o)) /\ Unobserved
    \/ (\E ext \in ExternalDays, f \in Faults : BookingCheck(ext, f)) /\ Unobserved
    \/ (\E f \in Faults : BookingCreate(f)) /\ Unobserved
    \/ (\E o \in ProviderOutcomes : AvailabilityDate(o)) /\ Unobserved
    \/ (\E o \in ProviderOutcomes : AvailabilityTime(o)) /\ Unobserved
    \/ (\E ext \in ExternalDays, f \in Faults : AvailabilityCheck(ext, f)) /\ Unobserved
    \/ (\E o \in ProviderOutcomes : ScheduleExtract(o)) /\ Unobserved
    \/ (\E ext \in ExternalDays, f \in Faults : ScheduleList(ext, f)) /\ Unobserved
    \/ (\E o \in ProviderOutcomes : GeneralChat(o)) /\ Unobserved

\* the server with its agent (the agent is built at startup, and the server does not
\* start when that fails: lines 62-69)
ServerSpec == Init /\ [][ServerNext]_vars

C24_AlwaysAnswered ==
    \A k \in 1..Len(requests) :
       /\ requests[k].path = "/chat"
       /\ requests[k].at = "answered"
       => /\ requests[k].success = ~Falsy(requests[k].message)
          /\ requests[k].response.kind = "completion"
                => requests[k].response.text # None
====
